---------------------------- MODULE DiscoveryProofs ----------------------------
(***************************************************************************)
(* What the catalog of capabilities guarantees for any services, tools and *)
(* skills, and whichever servers come and go.  The invariant says that a   *)
(* name is registered once (Distinct), that what an action reads is        *)
(* registered as a read, or is among the tools of the same server that are *)
(* still to be registered (Grounded, Registering), that skills stay        *)
(* complete (Skilled) and that what is disabled is out from the moment it  *)
(* has been removed (Out).                                                 *)
(***************************************************************************)
EXTENDS CapabilityDiscovery, TLAPS

Stages == {"defaults", "disable", "discover", "register", "build", "idle", "evaluate"}
Capability == [name : Tool, read : BOOLEAN, reads : SUBSET Tool, owner : BOOLEAN]

(* "invalid" is no stage: the server always starts.                        *)
Typed ==
    /\ deployment \in Deployments
    /\ tools \subseteq Capability
    /\ skills \subseteq DOMAIN SkillTools
    /\ agent \in [at : Stages, todo : Seq(Server), rest : SUBSET Tool, started : BOOLEAN]
    /\ disk \subseteq DOMAIN LearnedSkill

Distinct == \A t, u \in tools : t.name = u.name => t = u

Pending == IF At("register") THEN agent.rest ELSE {}
Grounded ==
    \A t \in tools :
        /\ t.read \/ t.reads # {}
        /\ t.reads \subseteq ReadNames \cup (Pending \cap Read)

Registering ==
    At("register") =>
        /\ agent.todo # <<>>
        /\ agent.rest \subseteq Usable(Head(agent.todo)) \ Names
        /\ ContextOf(Head(agent.todo)) \subseteq ReadNames \cup agent.rest

Skilled == \A s \in skills : Complete(SkillTools[s])

Out ==
    ~At("defaults") /\ ~At("disable") =>
        /\ Names \cap deployment.tools = {}
        /\ skills \cap deployment.skills \subseteq DOMAIN LearnedSkill

CatalogInv == Typed /\ Distinct /\ Grounded /\ Registering /\ Skilled /\ Out

-----------------------------------------------------------------------------
(* remove_tools leaves no tool that requires one it removed: the least set *)
(* it removes exists, it is the intersection of all that would do.         *)
LEMMA CascadeCloses ==
    ASSUME NEW names
    PROVE  /\ names \subseteq Cascade(names)
           /\ \A t \in Names : Reads(t) \cap Cascade(names) # {} => t \in Cascade(names)
<1> DEFINE closed == {s \in SUBSET (Names \cup names) :
                        /\ names \subseteq s
                        /\ \A t \in Names : Reads(t) \cap s # {} => t \in s}
           least == {x \in Names \cup names : \A s \in closed : x \in s}
<1>1. least \in closed
  <2>1. \A t \in Names : Reads(t) \cap least # {} => t \in least
    <3> SUFFICES ASSUME NEW t \in Names, Reads(t) \cap least # {}, NEW s \in closed PROVE t \in s
      OBVIOUS
    <3>1. Reads(t) \cap s # {}
      OBVIOUS
    <3>2. QED
      BY <3>1
  <2>2. names \subseteq least /\ least \subseteq Names \cup names
    OBVIOUS
  <2>3. QED
    BY <2>1, <2>2
<1>2. \A s \in closed : least \subseteq s
  OBVIOUS
<1>3. Cascade(names) = CHOOSE s \in closed : \A other \in closed : s \subseteq other
  BY DEF Cascade
<1>4. Cascade(names) \in closed
  <2> HIDE DEF closed, least
  <2>1. QED
    BY <1>1, <1>2, <1>3
<1>5. QED
  BY <1>4

LEMMA StageTypes ==
    ASSUME Typed
    PROVE  /\ agent.at \in Stages /\ agent.todo \in Seq(Server) /\ agent.rest \subseteq Tool
           /\ agent.started \in BOOLEAN
           /\ \A a : At(a) <=> agent.at = a
  BY DEF Typed, At

(* A step that leaves the catalog alone, before or after the registration  *)
(* of one server's tools.                                                  *)
LEMMA CatalogKept ==
    ASSUME CatalogInv, Typed', UNCHANGED <<deployment, tools, skills>>,
           \/ UNCHANGED agent
           \/ /\ agent.at \notin {"defaults", "disable", "register"}
              /\ agent'.at \notin {"defaults", "disable", "register"}
    PROVE  CatalogInv'
<1>1. tools' = tools /\ skills' = skills /\ deployment' = deployment
  OBVIOUS
<1>2. Distinct' /\ Skilled'
  BY <1>1 DEF CatalogInv, Distinct, Skilled, Complete, Reads, Names, NamesOf
<1>3. Names' = Names /\ ReadNames' = ReadNames
  BY <1>1 DEF Names, ReadNames, NamesOf
<1>4. CASE UNCHANGED agent
  <2>1. Pending' = Pending /\ (\A a : At(a)' <=> At(a))
    BY <1>4 DEF Pending, At
  <2>2. Grounded'
    BY <1>1, <1>3, <2>1 DEF CatalogInv, Grounded
  <2>3. Registering'
    BY <1>1, <1>3, <1>4, <2>1
       DEF CatalogInv, Registering, Usable, Offered, ContextOf
  <2>4. Out'
    BY <1>1, <1>3, <2>1 DEF CatalogInv, Out
  <2>5. QED
    BY <1>2, <2>2, <2>3, <2>4 DEF CatalogInv
<1>5. CASE /\ agent.at \notin {"defaults", "disable", "register"}
           /\ agent'.at \notin {"defaults", "disable", "register"}
  <2>1. /\ ~At("register") /\ ~At("register")' /\ ~At("defaults") /\ ~At("disable")
    BY <1>5 DEF At
  <2>2. Grounded'
    BY <1>1, <1>3, <2>1 DEF CatalogInv, Grounded, Pending
  <2>3. Registering' /\ Out'
    BY <1>1, <1>3, <2>1 DEF CatalogInv, Registering, Out
  <2>4. QED
    BY <1>2, <2>2, <2>3 DEF CatalogInv
<1>6. QED
  BY <1>4, <1>5

LEMMA InitCatalog == Init => CatalogInv
<1> SUFFICES ASSUME Init PROVE CatalogInv
  OBVIOUS
<1>1. <<>> \in Seq(Server) /\ "defaults" \in Stages
  BY DEF Stages
<1>2. Typed
  BY <1>1 DEF Init, Typed
<1>3. At("defaults") /\ tools = {} /\ skills = {}
  BY DEF Init, At
<1>4. QED
  BY <1>2, <1>3 DEF CatalogInv, Distinct, Grounded, Registering, Skilled, Out, At

LEMMA DefaultsKeep == CatalogInv /\ RegisterDefaults => CatalogInv'
<1> SUFFICES ASSUME CatalogInv, RegisterDefaults PROVE CatalogInv'
  OBVIOUS
<1> USE DEF CatalogInv
<1>1. /\ tools' = {t \in DefaultTools : ToolService[t.name] \in deployment.services}
      /\ skills' = {s \in DOMAIN DefaultSkill : DefaultSkill[s] \subseteq NamesOf(tools')}
      /\ agent' = [agent EXCEPT !.at = "disable"]
      /\ deployment' = deployment /\ disk' = disk
  BY DEF RegisterDefaults
<1>2. Typed'
  <2>1. agent' \in [at : Stages, todo : Seq(Server), rest : SUBSET Tool, started : BOOLEAN]
    BY <1>1 DEF Typed, Stages
  <2>2. tools' \subseteq Capability
    BY <1>1, DefaultAssumption DEF Capability
  <2>3. skills' \subseteq DOMAIN SkillTools
    BY <1>1 DEF SkillTools
  <2>4. QED
    BY <1>1, <2>1, <2>2, <2>3 DEF Typed
<1>3. agent'.at = "disable"
  BY <1>1 DEF Typed
<1>4. ~At("register")' /\ At("disable")'
  BY <1>3 DEF At
<1>5. Distinct'
  BY <1>1, DefaultAssumption DEF Distinct
<1>6. Grounded'
  <2> SUFFICES ASSUME NEW t \in tools' PROVE (t.read \/ t.reads # {}) /\ t.reads \subseteq ReadNames'
    BY <1>4 DEF Grounded, Pending
  <2>1. t \in DefaultTools /\ ToolService[t.name] \in deployment.services
    BY <1>1
  <2>2. t.read \/ t.reads # {}
    BY <2>1, DefaultAssumption
  <2>3. ASSUME NEW r \in t.reads PROVE r \in ReadNames'
    <3>1. PICK u \in DefaultTools : u.name = r /\ u.read /\ ToolService[r] = ToolService[t.name]
      BY <2>1, DefaultAssumption
    <3>2. u \in tools' /\ u.read
      BY <1>1, <2>1, <3>1
    <3>3. QED
      BY <3>1, <3>2 DEF ReadNames, NamesOf
  <2>4. QED
    BY <2>2, <2>3
<1>7. Skilled'
  <2> SUFFICES ASSUME NEW s \in skills' PROVE Complete(SkillTools[s])'
    BY DEF Skilled
  <2>1. s \in DOMAIN DefaultSkill /\ SkillTools[s] = DefaultSkill[s] /\ DefaultSkill[s] \subseteq Names'
    BY <1>1 DEF SkillTools, Names
  <2>2. ASSUME NEW t \in DefaultSkill[s] PROVE Reads(t)' \subseteq DefaultSkill[s]
    <3>1. ASSUME NEW u \in tools', u.name = t PROVE u.reads \subseteq DefaultSkill[s]
      BY <1>1, <2>1, <3>1, DefaultAssumption
    <3>2. QED
      BY <3>1 DEF Reads
  <2>3. QED
    BY <2>1, <2>2 DEF Complete
<1>8. QED
  BY <1>2, <1>4, <1>5, <1>6, <1>7 DEF Registering, Out

LEMMA DisableKeeps == CatalogInv /\ RemoveDisabled => CatalogInv'
<1> SUFFICES ASSUME CatalogInv, RemoveDisabled PROVE CatalogInv'
  OBVIOUS
<1> USE DEF CatalogInv
<1> DEFINE removed == Cascade(deployment.tools)
<1>1. /\ tools' = {t \in tools : t.name \notin removed}
      /\ skills' = {s \in skills \ deployment.skills : SkillTools[s] \cap removed = {}}
      /\ agent' = [agent EXCEPT !.at = "discover", !.todo = ServerOrder]
      /\ deployment' = deployment /\ disk' = disk /\ At("disable")
  BY DEF RemoveDisabled
<1>2. /\ deployment.tools \subseteq removed
      /\ \A t \in Names : Reads(t) \cap removed # {} => t \in removed
  BY CascadeCloses
<1> HIDE DEF removed
<1>3. Typed'
  <2>1. agent' \in [at : Stages, todo : Seq(Server), rest : SUBSET Tool, started : BOOLEAN]
    BY <1>1, ServerAssumption DEF Typed, Stages
  <2>2. QED
    BY <1>1, <2>1 DEF Typed
<1>4. agent'.at = "discover"
  BY <1>1 DEF Typed
<1>5. ~At("register")' /\ ~At("register")
  BY <1>1, <1>4 DEF At
<1>6. Distinct'
  BY <1>1 DEF Distinct
<1>7. Grounded'
  <2> SUFFICES ASSUME NEW t \in tools' PROVE (t.read \/ t.reads # {}) /\ t.reads \subseteq ReadNames'
    BY <1>5 DEF Grounded, Pending
  <2>1. t \in tools /\ t.name \notin removed /\ (t.read \/ t.reads # {}) /\ t.reads \subseteq ReadNames
    BY <1>1, <1>5 DEF Grounded, Pending
  <2>2. t.name \in Names /\ t.reads \subseteq Reads(t.name)
    BY <2>1 DEF Names, NamesOf, Reads
  <2>3. t.reads \cap removed = {}
    BY <1>2, <2>1, <2>2
  <2>4. ASSUME NEW r \in t.reads PROVE r \in ReadNames'
    <3>1. PICK u \in tools : u.read /\ u.name = r
      BY <2>1 DEF ReadNames, NamesOf
    <3>2. u \in tools'
      BY <1>1, <2>3, <3>1
    <3>3. QED
      BY <3>1, <3>2 DEF ReadNames, NamesOf
  <2>5. QED
    BY <2>1, <2>4
<1>8. Skilled'
  <2> SUFFICES ASSUME NEW s \in skills' PROVE Complete(SkillTools[s])'
    BY DEF Skilled
  <2>1. Complete(SkillTools[s]) /\ SkillTools[s] \cap removed = {}
    BY <1>1 DEF Skilled
  <2>2. SkillTools[s] \subseteq Names'
    <3> SUFFICES ASSUME NEW n \in SkillTools[s] PROVE n \in Names'
      OBVIOUS
    <3>1. PICK t \in tools : t.name = n
      BY <2>1 DEF Complete, Names, NamesOf
    <3>2. t \in tools'
      BY <1>1, <2>1, <3>1
    <3>3. QED
      BY <3>1, <3>2 DEF Names, NamesOf
  <2>3. \A t : Reads(t)' \subseteq Reads(t)
    BY <1>1 DEF Reads
  <2>4. QED
    BY <2>1, <2>2, <2>3 DEF Complete
<1>9. Out'
  BY <1>1, <1>2 DEF Out, Names, NamesOf
<1>10. QED
  BY <1>3, <1>5, <1>6, <1>7, <1>8, <1>9 DEF Registering

(* An unreachable or skipped server leaves the rest of the order.          *)
LEMMA NextServerType ==
    ASSUME Typed, agent.todo # <<>>
    PROVE  Tail(agent.todo) \in Seq(Server) /\ Head(agent.todo) \in Server
<1>1. agent.todo \in Seq(Server)
  BY DEF Typed
<1>2. QED
  BY <1>1

LEMMA PassKeeps ==
    ASSUME CatalogInv, NEW s \in Server, Skip(s) \/ Unreachable(s)
    PROVE  CatalogInv'
<1>1. /\ UNCHANGED <<deployment, tools, skills, disk>>
      /\ At("discover") /\ agent.todo # <<>> /\ agent' = [agent EXCEPT !.todo = Tail(@)]
  BY DEF Skip, Unreachable, Considers, NextServer, catalog
<1>2. Typed
  BY DEF CatalogInv
<1>3. Typed'
  BY <1>1, <1>2, NextServerType DEF Typed
<1>4. agent.at = "discover" /\ agent'.at = "discover"
  BY <1>1, <1>2 DEF Typed, At
<1>5. QED
  BY <1>1, <1>3, <1>4, CatalogKept

LEMMA ConnectKeeps ==
    ASSUME CatalogInv, NEW s \in Server, Connect(s)
    PROVE  CatalogInv'
<1> USE DEF CatalogInv
<1>1. /\ UNCHANGED <<deployment, tools, skills, disk>>
      /\ At("discover") /\ agent.todo # <<>> /\ s = Head(agent.todo) /\ ~ServiceKnown(s)
      /\ agent' = [agent EXCEPT !.at = "register", !.rest = Usable(s)]
  BY DEF Connect, Considers, Skipped, catalog
<1>2. Usable(s) \subseteq Tool /\ ContextOf(s) \subseteq Usable(s)
  BY ServerAssumption DEF Usable, Offered, ContextOf
<1>3. Typed'
  BY <1>1, <1>2 DEF Typed, Stages
<1>4. agent'.at = "register" /\ agent'.rest = Usable(s) /\ agent'.todo = agent.todo
  BY <1>1 DEF Typed
<1>5. At("register")' /\ ~At("register") /\ ~At("defaults") /\ ~At("disable")
  BY <1>1, <1>4 DEF At
<1>6. Names' = Names /\ ReadNames' = ReadNames /\ Usable(s)' = Usable(s) /\ ContextOf(s)' = ContextOf(s)
  BY <1>1 DEF Names, ReadNames, NamesOf, Usable, Offered, ContextOf
<1>7. Usable(s) \cap Names = {}
  BY ServerAssumption, <1>1 DEF Usable, Offered, ServiceKnown
<1>8. Registering'
  BY <1>1, <1>2, <1>4, <1>6, <1>7 DEF Registering
<1>9. Grounded'
  BY <1>1, <1>5, <1>6 DEF Grounded, Pending
<1>10. Distinct' /\ Skilled'
  BY <1>1 DEF Distinct, Skilled, Complete, Reads, Names, NamesOf
<1>11. Out'
  BY <1>1, <1>5, <1>6 DEF Out
<1>12. QED
  BY <1>3, <1>8, <1>9, <1>10, <1>11

LEMMA RegisterKeeps ==
    ASSUME CatalogInv, NEW s \in Server, NEW t \in Tool, RegisterTool(s, t)
    PROVE  CatalogInv'
<1> USE DEF CatalogInv
<1> DEFINE new == [name |-> t, read |-> t \in Read, owner |-> FALSE,
                   reads |-> IF t \in Read THEN {} ELSE ContextOf(s)]
<1>1. /\ UNCHANGED <<deployment, skills, disk>>
      /\ At("register") /\ t \in agent.rest /\ s = Head(agent.todo)
      /\ tools' = IF t \in Names THEN tools ELSE tools \cup {new}
      /\ agent' = [agent EXCEPT !.rest = @ \ {t}]
  BY DEF RegisterTool
<1>2. /\ agent.todo # <<>>
      /\ agent.rest \subseteq Usable(s) \ Names
      /\ ContextOf(s) \subseteq ReadNames \cup agent.rest
  BY <1>1 DEF Registering
<1>3. tools' = tools \cup {new} /\ t \notin Names /\ t \in Usable(s)
  BY <1>1, <1>2
<1>4. /\ new \in Capability /\ new.name = t /\ new.owner = FALSE
      /\ new.read <=> t \in Read
      /\ new.reads = IF t \in Read THEN {} ELSE ContextOf(s)
  <2>1. (IF t \in Read THEN {} ELSE ContextOf(s)) \in SUBSET Tool
    BY ServerAssumption DEF ContextOf, Offered
  <2>2. (t \in Read) \in BOOLEAN
    OBVIOUS
  <2>3. new \in Capability
    BY <2>1, <2>2, Zenon DEF Capability
  <2>4. (new.read <=> t \in Read) /\ new.name = t /\ new.owner = FALSE
    OBVIOUS
  <2>5. QED
    BY <2>3, <2>4
<1> HIDE DEF new
<1>5. Typed'
  BY <1>1, <1>3, <1>4 DEF Typed
<1>6. agent'.at = agent.at /\ agent'.rest = agent.rest \ {t} /\ agent'.todo = agent.todo
  BY <1>1 DEF Typed
<1>7. At("register")' /\ ~At("defaults") /\ ~At("disable")
  BY <1>1, <1>6 DEF At
<1>8. Names' = Names \cup {t}
  BY <1>3, <1>4 DEF Names, NamesOf
<1>9. ReadNames' = ReadNames \cup ({t} \cap Read)
  BY <1>3, <1>4 DEF ReadNames, NamesOf
<1>10. Usable(s)' = Usable(s) /\ ContextOf(s)' = ContextOf(s) /\ ContextOf(s) \subseteq Read
  BY <1>1, ServerAssumption DEF Usable, Offered, ContextOf
<1>11. Distinct'
  BY <1>3, <1>4 DEF Distinct, Names, NamesOf
<1>12. Registering'
  <2>1. agent'.rest \subseteq Usable(s)' \ Names'
    BY <1>2, <1>6, <1>8, <1>10
  <2>2. ContextOf(s)' \subseteq ReadNames' \cup agent'.rest
    BY <1>2, <1>6, <1>9, <1>10
  <2>3. QED
    BY <1>1, <1>2, <1>6, <2>1, <2>2 DEF Registering
<1>13. Grounded'
  <2>1. ReadNames \cup (Pending \cap Read) \subseteq ReadNames' \cup (Pending' \cap Read)
    BY <1>1, <1>6, <1>7, <1>9 DEF Pending
  <2>2. ASSUME NEW u \in tools
        PROVE  (u.read \/ u.reads # {}) /\ u.reads \subseteq ReadNames' \cup (Pending' \cap Read)
    BY <2>1 DEF Grounded
  <2>3. (new.read \/ new.reads # {}) /\ new.reads \subseteq ReadNames' \cup (Pending' \cap Read)
    <3>1. t \in Read \/ ContextOf(s) # {}
      BY <1>3 DEF Usable
    <3>2. ContextOf(s) \subseteq ReadNames \cup (Pending \cap Read)
      BY <1>1, <1>2, <1>10 DEF Pending
    <3>3. QED
      BY <1>4, <2>1, <3>1, <3>2
  <2>4. QED
    BY <1>3, <2>2, <2>3 DEF Grounded
<1>14. Skilled'
  <2>1. ASSUME NEW n \in Names PROVE Reads(n)' = Reads(n)
    BY <1>3, <1>4 DEF Reads
  <2>2. QED
    BY <1>1, <1>8, <2>1 DEF Skilled, Complete
<1>15. Out'
  <2>1. t \notin deployment.tools
    BY <1>3 DEF Usable, Offered
  <2>2. QED
    BY <1>1, <1>7, <1>8, <2>1 DEF Out
<1>16. QED
  BY <1>5, <1>11, <1>12, <1>13, <1>14, <1>15

LEMMA DiscoveredKeeps == CatalogInv /\ Discovered => CatalogInv'
<1> SUFFICES ASSUME CatalogInv, Discovered PROVE CatalogInv'
  OBVIOUS
<1> USE DEF CatalogInv
<1>1. /\ UNCHANGED <<deployment, tools, skills, disk>>
      /\ At("register") /\ agent.rest = {}
      /\ agent' = [agent EXCEPT !.at = "discover", !.todo = Tail(@)]
  BY DEF Discovered, catalog
<1>2. agent.todo # <<>>
  BY <1>1 DEF Registering
<1>3. Typed'
  BY <1>1, <1>2, NextServerType DEF Typed, Stages
<1>4. agent'.at = "discover"
  BY <1>1 DEF Typed
<1>5. ~At("register")' /\ ~At("defaults") /\ ~At("disable")
  BY <1>1, <1>4 DEF At
<1>6. Names' = Names /\ ReadNames' = ReadNames
  BY <1>1 DEF Names, ReadNames, NamesOf
<1>7. Grounded'
  BY <1>1, <1>5, <1>6 DEF Grounded, Pending
<1>8. Distinct' /\ Skilled'
  BY <1>1 DEF Distinct, Skilled, Complete, Reads, Names, NamesOf
<1>9. Registering' /\ Out'
  BY <1>1, <1>5, <1>6 DEF Registering, Out
<1>10. QED
  BY <1>3, <1>7, <1>8, <1>9

LEMMA LearnedKeep == CatalogInv /\ RegisterLearned => CatalogInv'
<1> SUFFICES ASSUME CatalogInv, RegisterLearned PROVE CatalogInv'
  OBVIOUS
<1> USE DEF CatalogInv
<1>1. /\ UNCHANGED <<deployment, tools, disk>>
      /\ At("discover")
      /\ skills' = (skills \ DOMAIN LearnedSkill) \cup {l \in disk : Fits(l)}
      /\ agent' = [agent EXCEPT !.at = IF agent.started THEN "evaluate" ELSE "build", !.started = TRUE]
  BY DEF RegisterLearned
<1>2. disk \subseteq DOMAIN LearnedSkill /\ DOMAIN LearnedSkill \subseteq DOMAIN SkillTools
  BY DEF Typed, SkillTools
<1>3. Typed'
  <2>1. agent' \in [at : Stages, todo : Seq(Server), rest : SUBSET Tool, started : BOOLEAN]
    BY <1>1 DEF Typed, Stages
  <2>2. QED
    BY <1>1, <1>2, <2>1 DEF Typed
<1>4. agent'.at \in {"evaluate", "build"}
  BY <1>1 DEF Typed
<1>5. ~At("register")' /\ ~At("register") /\ ~At("defaults") /\ ~At("disable")
  BY <1>1, <1>4 DEF At
<1>6. Names' = Names /\ ReadNames' = ReadNames /\ (\A n : Reads(n)' = Reads(n))
  BY <1>1 DEF Names, ReadNames, NamesOf, Reads
<1>7. Grounded' /\ Distinct' /\ Registering'
  BY <1>1, <1>5, <1>6 DEF Grounded, Pending, Distinct, Registering
<1>8. Skilled'
  <2> SUFFICES ASSUME NEW s \in skills' PROVE Complete(SkillTools[s])'
    BY DEF Skilled
  <2>1. Complete(SkillTools[s])
    <3>1. CASE s \in skills
      BY <3>1 DEF Skilled
    <3>2. CASE s \in disk /\ Fits(s)
      <4>1. SkillTools[s] = LearnedSkill[s]
        BY <1>2, <3>2, DefaultAssumption DEF SkillTools
      <4>2. QED
        BY <3>2, <4>1 DEF Fits
    <3>3. QED
      BY <1>1, <3>1, <3>2
  <2>2. QED
    BY <1>1, <1>6, <2>1 DEF Complete
<1>9. Out'
  BY <1>1, <1>2, <1>5, <1>6 DEF Out
<1>10. QED
  BY <1>3, <1>7, <1>8, <1>9

(* validate finds nothing to raise: outside of a registration, what is     *)
(* grounded is valid.                                                      *)
LEMMA InvIsValid ==
    ASSUME CatalogInv, ~At("register")
    PROVE  Valid /\ \A n \in Names \ ReadNames : Reads(n) # {}
<1>1. \A t \in tools : (t.read \/ t.reads # {}) /\ t.reads \subseteq ReadNames
  BY DEF CatalogInv, Grounded, Pending
<1>2. \A n \in Names : Reads(n) \subseteq ReadNames
  BY <1>1 DEF Reads
<1>3. ASSUME NEW n \in Names \ ReadNames PROVE Reads(n) # {}
  <2>1. PICK t \in tools : t.name = n /\ ~t.read
    BY <1>3 DEF Names, ReadNames, NamesOf
  <2>2. t.reads # {} /\ t.reads \subseteq Reads(n)
    BY <1>1, <2>1 DEF Reads
  <2>3. QED
    BY <2>2
<1>4. QED
  BY <1>2, <1>3 DEF CatalogInv, Skilled, Valid

LEMMA StageKeeps == CatalogInv /\ (Build \/ Refresh \/ Evaluated) => CatalogInv'
<1> SUFFICES ASSUME CatalogInv, Build \/ Refresh \/ Evaluated PROVE CatalogInv'
  OBVIOUS
<1> USE DEF CatalogInv
<1>1. UNCHANGED <<deployment, tools, skills, disk>>
  BY DEF Build, Refresh, Evaluated, catalog
<1>2. CASE Build
  <2>1. Valid
    BY <1>2, InvIsValid DEF Build, At
  <2>2. agent.at = "build" /\ agent' = [agent EXCEPT !.at = "idle"]
    BY <1>2, <2>1 DEF Build, At
  <2>3. Typed' /\ agent'.at = "idle"
    BY <1>1, <2>2 DEF Typed, Stages
  <2>4. QED
    BY <1>1, <2>2, <2>3, CatalogKept
<1>3. CASE Refresh
  <2>1. agent.at = "idle" /\ agent' = [agent EXCEPT !.at = "discover", !.todo = ServerOrder]
    BY <1>3 DEF Refresh, At
  <2>2. Typed' /\ agent'.at = "discover"
    BY <1>1, <2>1, ServerAssumption DEF Typed, Stages
  <2>3. QED
    BY <1>1, <2>1, <2>2, CatalogKept
<1>4. CASE Evaluated
  <2>1. agent.at = "evaluate" /\ agent' = [agent EXCEPT !.at = "idle"]
    BY <1>4 DEF Evaluated, At
  <2>2. Typed' /\ agent'.at = "idle"
    BY <1>1, <2>1 DEF Typed, Stages
  <2>3. QED
    BY <1>1, <2>1, <2>2, CatalogKept
<1>5. QED
  BY <1>2, <1>3, <1>4

LEMMA WorldKeeps ==
    ASSUME CatalogInv,
           \/ \E s \in Server : ServerChanges(s) \/ WaitOver(s)
           \/ \E l \in DOMAIN LearnedSkill : SkillChanges(l)
           \/ UNCHANGED vars
    PROVE  CatalogInv'
<1>1. UNCHANGED <<deployment, tools, skills, agent>>
  BY DEF ServerChanges, WaitOver, SkillChanges, vars, catalog
<1>2. disk' \subseteq DOMAIN LearnedSkill
  BY DEF ServerChanges, WaitOver, SkillChanges, Toggle, vars, CatalogInv, Typed
<1>3. Typed'
  BY <1>1, <1>2 DEF CatalogInv, Typed
<1>4. QED
  BY <1>1, <1>3, CatalogKept

LEMMA NextKeeps == CatalogInv /\ [Next]_vars => CatalogInv'
<1> SUFFICES ASSUME CatalogInv, [Next]_vars PROVE CatalogInv'
  OBVIOUS
<1>1. CASE Agent
  <2>1. CASE RegisterDefaults \/ RemoveDisabled
    BY <2>1, DefaultsKeep, DisableKeeps
  <2>2. ASSUME NEW s \in Server, Skip(s) \/ Unreachable(s) \/ Connect(s)
        PROVE  CatalogInv'
    BY <2>2, PassKeeps, ConnectKeeps
  <2>3. ASSUME NEW s \in Server, NEW t \in Tool, RegisterTool(s, t) PROVE CatalogInv'
    BY <2>3, RegisterKeeps
  <2>4. CASE Discovered \/ RegisterLearned
    BY <2>4, DiscoveredKeeps, LearnedKeep
  <2>5. CASE Build \/ Evaluated
    BY <2>5, StageKeeps
  <2>6. QED
    BY <1>1, <2>1, <2>2, <2>3, <2>4, <2>5 DEF Agent
<1>2. CASE Refresh
  BY <1>2, StageKeeps
<1>3. QED
  BY <1>1, <1>2, WorldKeeps DEF Next

LEMMA CatalogInvariant == Spec => []CatalogInv
<1>1. QED
  BY InitCatalog, NextKeeps, PTL DEF Spec

-----------------------------------------------------------------------------
\* For any services, tools and skills, and however servers come and go: the server starts,
\* and the catalog every event is decided with is sound, as if validate had run again after
\* each discovery (discovery.py, CapabilityCatalog.validate).
THEOREM CatalogStaysSound == Spec => []CatalogIsSound
<1>1. CatalogInv => CatalogIsSound
  <2> SUFFICES ASSUME CatalogInv PROVE CatalogIsSound
    OBVIOUS
  <2>1. ~At("invalid")
    BY DEF CatalogInv, Typed, Stages, At
  <2>2. At("idle") \/ At("evaluate") => ~At("register")
    BY DEF At
  <2>3. QED
    BY <2>1, <2>2, InvIsValid DEF CatalogIsSound
<1>2. QED
  BY <1>1, CatalogInvariant, PTL

\* What the deployment disables is not in the catalog of any event, whichever servers expose
\* it and however often they are discovered again (worker.py, discovery.py).
THEOREM DisabledIsNeverBack == Spec => []DisabledStaysOut
<1>1. CatalogInv => DisabledStaysOut
  BY DEF CatalogInv, Out, DisabledStaysOut, At
<1>2. QED
  BY <1>1, CatalogInvariant, PTL
=============================================================================
