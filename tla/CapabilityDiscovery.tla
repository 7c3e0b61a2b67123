------------------------- MODULE CapabilityDiscovery -------------------------
(***************************************************************************)
(* The catalog of tools and skills that the event agent may use: built at  *)
(* the start from the services of the deployment (src/autonomy/worker.py), *)
(* completed before every event by discovery of the MCP servers Hermes is  *)
(* connected to (discovery.py) and by the learned skills the operators     *)
(* have approved (service_capabilities.py), while servers come and go.     *)
(* Names carry their service (<service>.<tool>).  The catalog is a set of  *)
(* tools: the order of its dictionary, and the order in which a server     *)
(* lists its tools, decide nothing.                                        *)
(***************************************************************************)
EXTENDS Naturals, Sequences, FiniteSets, SequencesExt

CONSTANTS
    ServerOrder,    \* the enabled servers, in the order of the Hermes configuration
    ServerService,  \* server -> its service_prefix
    Exposes,        \* server -> the tools it lists
    ToolService,    \* tool -> its service
    Read,           \* the tools for which is_read holds
    Context,        \* the reads that need no argument
    DefaultTools,   \* the capabilities of register_defaults
    DefaultSkill,   \* its skills -> their tools
    LearnedSkill,   \* learned skills -> the tools their file lists
    Deployments     \* [services with a URL, disabled tools, disabled skills]

Server == ToSet(ServerOrder)
Tool == DOMAIN ToolService

(* What register_tool and validate require of the defaults, how names are  *)
(* prefixed and learned skills named, and that context tools are reads.    *)
ASSUME DefaultAssumption ==
    /\ DefaultTools \subseteq [name : Tool, read : BOOLEAN, reads : SUBSET Tool, owner : {TRUE}]
    /\ \A t, u \in DefaultTools : t.name = u.name => t = u
    /\ \A t \in DefaultTools :
         /\ t.read \/ t.reads # {}
         /\ \A r \in t.reads : \E u \in DefaultTools :
               u.name = r /\ u.read /\ ToolService[r] = ToolService[t.name]
         /\ \A s \in DOMAIN DefaultSkill : t.name \in DefaultSkill[s] => t.reads \subseteq DefaultSkill[s]
    /\ DOMAIN DefaultSkill \cap DOMAIN LearnedSkill = {}
ASSUME ServerAssumption ==
    /\ ServerOrder \in Seq(Server)
    /\ \A s \in Server : Exposes[s] \subseteq {t \in Tool : ToolService[t] = ServerService[s]}
    /\ Context \subseteq Read
SkillTools == [s \in DOMAIN DefaultSkill \cup DOMAIN LearnedSkill |->
                 IF s \in DOMAIN DefaultSkill THEN DefaultSkill[s] ELSE LearnedSkill[s]]

VARIABLES
    deployment,
    tools,      \* catalog.tools: [name, read, reads, owner]
    skills,     \* catalog.skills
    seen,       \* _seen
    waiting,    \* the servers of _failed whose RETRY_SECONDS are not over
    agent,      \* the thread that builds the catalog, then evaluates events
    up,         \* the servers that can be reached
    disk        \* the approved learned-*/SKILL.md

vars == <<deployment, tools, skills, seen, waiting, agent, up, disk>>
catalog == <<tools, skills>>

At(stage) == agent.at = stage
NamesOf(set) == {t.name : t \in set}
Names == NamesOf(tools)
Reads(name) == UNION {t.reads : t \in {u \in tools : u.name = name}}
ReadNames == NamesOf({t \in tools : t.read})
Complete(names) == names \subseteq Names /\ \A t \in names : Reads(t) \subseteq names

-----------------------------------------------------------------------------
(* build_registry.                                                         *)
RegisterDefaults ==
    /\ At("defaults")
    /\ tools' = {t \in DefaultTools : ToolService[t.name] \in deployment.services}
    /\ skills' = {s \in DOMAIN DefaultSkill : DefaultSkill[s] \subseteq NamesOf(tools')}
    /\ agent' = [agent EXCEPT !.at = "disable"]
    /\ UNCHANGED <<deployment, seen, waiting, up, disk>>

(* remove_tools: what is named, and all that requires it.                  *)
Cascade(names) ==
    LET closed == {s \in SUBSET (Names \cup names) :
                     /\ names \subseteq s
                     /\ \A t \in Names : Reads(t) \cap s # {} => t \in s}
    IN CHOOSE s \in closed : \A other \in closed : s \subseteq other

RemoveDisabled ==
    /\ At("disable")
    /\ LET removed == Cascade(deployment.tools)
       IN /\ tools' = {t \in tools : t.name \notin removed}
          /\ skills' = {s \in skills \ deployment.skills : SkillTools[s] \cap removed = {}}
    /\ agent' = [agent EXCEPT !.at = "discover", !.todo = ServerOrder]
    /\ UNCHANGED <<deployment, seen, waiting, up, disk>>

-----------------------------------------------------------------------------
(* discover, server by server and tool by tool.                            *)
ServiceKnown(s) == \E t \in Names : ToolService[t] = ServerService[s]
Skipped(s) == s \in seen \/ ServiceKnown(s) \/ s \in waiting
Considers(s) == At("discover") /\ agent.todo # <<>> /\ s = Head(agent.todo)
NextServer == agent' = [agent EXCEPT !.todo = Tail(@)]

Skip(s) ==
    /\ Considers(s) /\ Skipped(s)
    /\ NextServer
    /\ UNCHANGED <<deployment, catalog, seen, waiting, up, disk>>

(* slip: seen before it has answered *)
UnreachableIsSeen(s) ==
    /\ Considers(s) /\ ~Skipped(s) /\ s \notin up
    /\ seen' = seen \cup {s}
    /\ NextServer
    /\ UNCHANGED <<deployment, catalog, waiting, up, disk>>
Unreachable(s) ==
    /\ Considers(s) /\ ~Skipped(s) /\ s \notin up
    /\ waiting' = waiting \cup {s}
    /\ NextServer
    /\ UNCHANGED <<deployment, catalog, seen, up, disk>>

(* slip: the refresh does not know what is disabled *)
OfferedAll(s) == Exposes[s]
Offered(s) == Exposes[s] \ deployment.tools
ContextOf(s) == Offered(s) \cap Context
(* Actions need a live context read.                                       *)
Usable(s) == {t \in Offered(s) : t \in Read \/ ContextOf(s) # {}}

Connect(s) ==
    /\ Considers(s) /\ ~Skipped(s) /\ s \in up
    /\ seen' = seen \cup {s}
    /\ agent' = [agent EXCEPT !.at = "register", !.rest = Usable(s)]
    /\ UNCHANGED <<deployment, catalog, waiting, up, disk>>

RegisterTool(s, t) ==
    /\ At("register") /\ t \in agent.rest /\ s = Head(agent.todo)
    /\ tools' = IF t \in Names THEN tools
                ELSE tools \cup {[name |-> t, read |-> t \in Read, owner |-> FALSE,
                                  reads |-> IF t \in Read THEN {} ELSE ContextOf(s)]}
    /\ agent' = [agent EXCEPT !.rest = @ \ {t}]
    /\ UNCHANGED <<deployment, skills, seen, waiting, up, disk>>

Discovered ==
    /\ At("register") /\ agent.rest = {}
    /\ agent' = [agent EXCEPT !.at = "discover", !.todo = Tail(@)]
    /\ UNCHANGED <<deployment, catalog, seen, waiting, up, disk>>

(* slip: the required reads are not looked at *)
FitsLoosely(l) == LearnedSkill[l] \subseteq Names
Fits(l) == Complete(LearnedSkill[l])
(* slip: a skill that did not fit at the start is not looked at again *)
RegisterLearnedOnce ==
    /\ At("discover") /\ agent.todo = <<>>
    /\ skills' = IF agent.started THEN skills \ (DOMAIN LearnedSkill \ disk)
                 ELSE skills \cup {l \in disk : Fits(l)}
    /\ agent' = [agent EXCEPT !.at = IF agent.started THEN "evaluate" ELSE "build", !.started = TRUE]
    /\ UNCHANGED <<deployment, tools, seen, waiting, up, disk>>
(* register_learned_skills: all are removed, those that fit are registered. *)
RegisterLearned ==
    /\ At("discover") /\ agent.todo = <<>>
    /\ skills' = (skills \ DOMAIN LearnedSkill) \cup {l \in disk : Fits(l)}
    /\ agent' = [agent EXCEPT !.at = IF agent.started THEN "evaluate" ELSE "build", !.started = TRUE]
    /\ UNCHANGED <<deployment, tools, seen, waiting, up, disk>>

(* registry.build: catalog.validate raises, and the server does not start. *)
Valid ==
    /\ \A t \in Names : Reads(t) \subseteq ReadNames
    /\ \A s \in skills : Complete(SkillTools[s])
Build ==
    /\ At("build")
    /\ agent' = [agent EXCEPT !.at = IF Valid THEN "idle" ELSE "invalid"]
    /\ UNCHANGED <<deployment, catalog, seen, waiting, up, disk>>

-----------------------------------------------------------------------------
(* Every event refreshes the catalog first.                                *)
Refresh ==
    /\ At("idle")
    /\ agent' = [agent EXCEPT !.at = "discover", !.todo = ServerOrder]
    /\ UNCHANGED <<deployment, catalog, seen, waiting, up, disk>>
Evaluated ==
    /\ At("evaluate")
    /\ agent' = [agent EXCEPT !.at = "idle"]
    /\ UNCHANGED <<deployment, catalog, seen, waiting, up, disk>>

-----------------------------------------------------------------------------
(* Servers come and go, time passes, operators approve and remove skills.  *)
Toggle(set, x) == IF x \in set THEN set \ {x} ELSE set \cup {x}
ServerChanges(s) ==
    /\ up' = Toggle(up, s)
    /\ UNCHANGED <<deployment, catalog, seen, waiting, agent, disk>>
WaitOver(s) ==
    /\ s \in waiting /\ waiting' = waiting \ {s}
    /\ UNCHANGED <<deployment, catalog, seen, agent, up, disk>>
SkillChanges(l) ==
    /\ disk' = Toggle(disk, l)
    /\ UNCHANGED <<deployment, catalog, seen, waiting, agent, up>>

Init ==
    /\ deployment \in Deployments
    /\ tools = {} /\ skills = {} /\ seen = {} /\ waiting = {}
    /\ agent = [at |-> "defaults", todo |-> <<>>, rest |-> {}, started |-> FALSE]
    /\ up \in SUBSET Server /\ disk \in SUBSET DOMAIN LearnedSkill

Agent ==
    \/ RegisterDefaults \/ RemoveDisabled
    \/ \E s \in Server : Skip(s) \/ Unreachable(s) \/ Connect(s) \/ \E t \in Tool : RegisterTool(s, t)
    \/ Discovered \/ RegisterLearned \/ Build \/ Evaluated
Next ==
    \/ Agent \/ Refresh
    \/ \E s \in Server : ServerChanges(s) \/ WaitOver(s)
    \/ \E l \in DOMAIN LearnedSkill : SkillChanges(l)

Spec == Init /\ [][Next]_vars
(* Threads run and time passes; events and changes of servers need not come. *)
FairSpec == Spec /\ WF_vars(Agent) /\ \A s \in Server : WF_vars(WaitOver(s))

-----------------------------------------------------------------------------

\* The catalog that events are decided with is sound, also after services joined while the
\* server ran, which no validate checks: every action has context to read, all of it
\* registered as reads, and every skill lists registered tools with all they require.
CatalogIsSound ==
    /\ ~At("invalid")
    /\ At("idle") \/ At("evaluate") =>
         /\ Valid
         /\ \A t \in Names \ ReadNames : Reads(t) # {}

\* What QSR_AUTONOMY_DISABLED_TOOLS and _SKILLS name stays out, although discovery finds the
\* same tools again at every server that exposes them: all tools, and the skills that are not
\* learned (register_learned_skills registers a learned one again, named there or not).
DisabledStaysOut ==
    At("idle") \/ At("evaluate") =>
        /\ Names \cap deployment.tools = {}
        /\ skills \cap deployment.skills \subseteq DOMAIN LearnedSkill

\* A service joins without a restart: while events come, a server that stays up ends with
\* its tools in the catalog, unless it shares its service with one that was there before.
Joined(s) == \E r \in Server : ServerService[r] = ServerService[s] /\ Usable(r) \subseteq Names
ServiceJoins ==
    \A s \in Server : ([]<>At("evaluate") /\ <>[](s \in up))
        => <>[](Joined(s) \/ \E t \in tools : t.owner /\ ToolService[t.name] = ServerService[s])

\* An approved skill joins, too: once what it needs stays in the catalog, it is there for
\* the events, also one that was approved while its services were offline.
LearnedJoins ==
    \A l \in DOMAIN LearnedSkill : ([]<>At("evaluate") /\ <>[](l \in disk /\ Fits(l)))
        => <>[](At("evaluate") => l \in skills)

\* "Removing a read cascades to dependent actions" (docs/backup/SERVICE_OWNER_GUIDE.md:191;
\* tests/autonomy/test_event_agent.py:447 asserts it of a disabled context read): no default
\* action is in the catalog when a read that it requires is disabled.  It may come back: with
\* all of its service's tools removed, discovery takes the service for a new one and registers
\* the action with other reads as its context, and without its owner's validator.
RemovedReadTakesItsActions ==
    At("evaluate") =>
        \A t \in DefaultTools :
            (ToolService[t.name] \in deployment.services /\ t.reads \cap deployment.tools # {})
                => t.name \notin Names
=============================================================================
