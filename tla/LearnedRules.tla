------------------------------ MODULE LearnedRules ------------------------------
(***************************************************************************)
(* How one learning run turns the operators' responses to one service into *)
(* a learned skill (src/autonomy/learning.py, and _refine and learn_skill  *)
(* of learning_runner.py): the model proposes rules, the records decide    *)
(* which are kept and at which thresholds, gaps are filled by a second     *)
(* reply and by induction, and the result is rendered and validated.       *)
(*                                                                         *)
(* A record is [id, event, payload, context, fields, kind, calls]: the     *)
(* flat fields of the event in their order, those of the context snapshots *)
(* that the event does not name as well, what the rules see of both        *)
(* (values are integers, those of non-numeric fields stand for labels),    *)
(* and in `calls` the settings of the operator's tool calls, or, for an    *)
(* answered proposal, those of the agent's.  A rule is                     *)
(* [event, when, any, tool, set]; `set` is a sequence of [key, value].  A  *)
(* value is <<"is", v>>, or <<"from", f>> for one bound to an event field. *)
(* Ratios are counted in parts of Whole, exactly for up to ten records.    *)
(***************************************************************************)
EXTENDS Integers, Sequences, FiniteSets, SequencesExt, Folds

CONSTANTS
    Fields,       \* every field, in the order of the names (a sequence)
    Numeric,      \* those that hold numbers
    Context,      \* those of a context snapshot, the others are the event's
    Stamps,       \* the fields of the event that hold a time (*_at), no rule sees them
    NameLength,   \* the length of each field's name
    Text,         \* label values that are texts of three characters or more
    Tool,         \* the registered tools
    ReadOnly,     \* those that read
    RequiredReads, \* for every tool, the reads it needs
    Arguments,    \* for every tool, the arguments in its schema
    ContextOf,    \* for every context field, the tool it was read with
    OwnReads,     \* the read-only tools of the service that is learnt
    Journals,     \* the sets of records a run may start from
    Existing,     \* the skills that may be on disk (NoSkill: none)
    Replies,      \* what the model may answer: sequences of rules, or Garbled
    Garbled,      \* an answer parse_rules refuses
    NoEvent,      \* the event of a rule that names none
    MinSupport,
    MaxBody       \* the most rules and kept sections a skill body has room for

IsCondition(c) == c = [field |-> c.field, op |-> c.op, value |-> c.value]
IsRule(r) ==
    /\ r = [event |-> r.event, when |-> r.when, any |-> r.any, tool |-> r.tool, set |-> r.set]
    /\ r.when \in Seq(Range(r.when)) /\ r.any \in Seq(Range(r.any)) /\ r.set \in Seq(Range(r.set))
    /\ \A i \in DOMAIN r.when : IsCondition(r.when[i])
IsRules(rules) == rules \in Seq(Range(rules)) /\ \A i \in DOMAIN rules : IsRule(rules[i])

ASSUME CatalogAssumption ==
    /\ OwnReads \subseteq Tool /\ ReadOnly \subseteq Tool
    /\ \A t \in Tool : RequiredReads[t] \subseteq ReadOnly
    /\ \A t \in ReadOnly : RequiredReads[t] = {}
    /\ OwnReads \subseteq ReadOnly /\ \A f \in Context : ContextOf[f] \notin Tool \ ReadOnly
(* What the rules see of an event and its context.                         *)
EventFields(payload, context) ==
    LET event == {payload[i].field : i \in DOMAIN payload}
        Item(f) == payload[CHOOSE i \in DOMAIN payload : payload[i].field = f]
    IN [f \in (event \cup DOMAIN context) \ Stamps |-> IF f \in event THEN Item(f).value ELSE context[f]]

ASSUME JournalAssumption ==
    \A journal \in Journals :
        /\ IsFiniteSet(journal)
        /\ \A r \in journal :
             /\ IsFiniteSet(DOMAIN r.payload) /\ IsFiniteSet(r.calls)
             /\ \A i, j \in DOMAIN r.payload : r.payload[i].field = r.payload[j].field => i = j
             /\ r.fields = EventFields(r.payload, r.context)
             /\ \A f \in DOMAIN r.fields : r.fields[f] \in Int
             /\ \A c \in r.calls : c = [tool |-> c.tool, key |-> c.key, value |-> c.value]
ASSUME ReplyAssumption == \A reply \in Replies \ {Garbled} : IsRules(reply)
ASSUME SupportAssumption == MinSupport \in Nat \ {0}

Whole == 2520
MinPrecision == 1512     \* 0.6
FitPrecision == 2016     \* 0.8
NoSkill == [tools |-> {}, sections |-> <<>>]
Operators == {">=", "<=", ">", "<", "==", "!="}
FieldAt(f) == CHOOSE i \in DOMAIN Fields : Fields[i] = f

VARIABLES
    records,   \* the unlearnt records of the service
    existing,  \* the skill that is being edited
    stage,     \* the reply awaited ("ask", "refine"), or "done", "failed"
    attempt,   \* 0, or 1 after one rejected output
    accepted,  \* the verified rules, each [rule, support, rejected, matched]
    skill      \* what is staged

vars == <<records, existing, stage, attempt, accepted, skill>>

-----------------------------------------------------------------------------
(* Choosing: the element with the highest score (a tuple, compared from    *)
(* the left), as a set that is empty if there is nothing to choose from.   *)
Above(a, b) == \E i \in DOMAIN a : a[i] > b[i] /\ \A j \in 1..(i - 1) : a[j] = b[j]
Best(S, Score(_)) == {x \in S : \A y \in S \ {x} : Above(Score(x), Score(y))}
OrElse(S, default) == IF S = {} THEN default ELSE CHOOSE x \in S : TRUE
Flag(b) == IF b THEN 1 ELSE 0
AtLeast(a, b) == IF a > b THEN a ELSE b
InOrder(S, Before(_, _)) ==
    [k \in 1..Cardinality(S) |-> CHOOSE x \in S : Cardinality({y \in S : Before(y, x)}) = k - 1]

(* The k-th smallest value (from 0) of a numeric field, and the typical    *)
(* range: the values at 15 and, rounded, 85 percent of the sorted list.    *)
With(items, f) == {r \in items : f \in DOMAIN r.fields}
Nth(items, f, k) ==
    CHOOSE v \in {r.fields[f] : r \in With(items, f)} :
        /\ Cardinality({r \in With(items, f) : r.fields[f] < v}) <= k
        /\ Cardinality({r \in With(items, f) : r.fields[f] <= v}) > k
Low(items, f) == Nth(items, f, (15 * (Cardinality(With(items, f)) - 1)) \div 100)
High(items, f) == Nth(items, f, (85 * (Cardinality(With(items, f)) - 1) + 50) \div 100)

-----------------------------------------------------------------------------
(* Records: the settings a call made, in their literal form and, where a   *)
(* text copies a field of the event, in the form bound to that field.  The *)
(* whole payload is searched, with the times that no rule sees.            *)
FirstOf(record, S) == {record.payload[i].field : i \in {j \in S : \A k \in S : j <= k}}
(* slip: the first text field, not the one that was copied *)
BoundToAnyText(record, v) ==
    FirstOf(record, {i \in DOMAIN record.payload : v \in Text /\ record.payload[i].value \in Text})
Bound(record, v) ==
    FirstOf(record, {i \in DOMAIN record.payload : v \in Text /\ record.payload[i].value = v})
CallChanges(record) ==
    UNION {{[tool |-> c.tool, key |-> c.key, value |-> <<"is", c.value>>]}
             \cup {[tool |-> c.tool, key |-> c.key, value |-> <<"from", f>>]
                     : f \in Bound(record, c.value)}
           : c \in record.calls}
Changes(record) == IF record.kind \in {"instruction", "approved"} THEN CallChanges(record) ELSE {}
Rejected(record) == IF record.kind = "rejected" THEN CallChanges(record) ELSE {}

(* A condition on a missing field fails, and so does an order on labels.   *)
Condition(fields, c) ==
    /\ c.field \in DOMAIN fields
    /\ LET v == fields[c.field]
       IN \/ c.op = "==" /\ v = c.value
          \/ c.op = "!=" /\ v # c.value
          \/ /\ c.field \in Numeric
             /\ \/ c.op = ">=" /\ v >= c.value
                \/ c.op = "<=" /\ v <= c.value
                \/ c.op = ">" /\ v > c.value
                \/ c.op = "<" /\ v < c.value

Matches(rule, fields) ==
    /\ \A i \in DOMAIN rule.when : Condition(fields, rule.when[i])
    /\ rule.any # <<>> => \E i \in DOMAIN rule.any : Condition(fields, rule.any[i])

RuleChange(rule) ==
    [tool |-> rule.tool, key |-> Head(rule.set).key, value |-> Head(rule.set).value]

(* What a skill proposes for an event: later rules overwrite earlier ones. *)
Settings(rules, fields) ==
    LET Resolved(v) == IF v[1] = "from" THEN fields[v[2]] ELSE v[2]
        Usable(rule) == Matches(rule, fields) /\ \A i \in DOMAIN rule.set :
                            LET v == rule.set[i].value IN v[1] = "from" => v[2] \in DOMAIN fields
        last(s) == SelectLastInSeq(rules, LAMBDA r : Usable(r) /\ r.tool = s[1]
                                                        /\ \E i \in DOMAIN r.set : r.set[i].key = s[2])
        slots == {s \in Tool \X (UNION {Arguments[t] : t \in Tool}) : last(s) > 0}
    IN [s \in slots |-> LET r == rules[last(s)]
                        IN Resolved(r.set[CHOOSE i \in DOMAIN r.set : r.set[i].key = s[2]].value)]

-----------------------------------------------------------------------------
(* Rules against records.                                                  *)
MatchedBy(rule, items) == {r \in items : Matches(rule, r.fields)}
Stats(rule, items) ==
    LET matched == MatchedBy(rule, items)
        change == RuleChange(rule)
    IN [support |-> Cardinality({r \in matched : change \in Changes(r)}),
        rejected |-> Cardinality({r \in matched : change \in Rejected(r)}),
        matched |-> Cardinality(matched)]
Precision(s) == IF s.matched = 0 THEN 0 ELSE (Whole * s.support) \div s.matched
When(rule, f, op, v) == [rule EXCEPT !.when = Append(@, [field |-> f, op |-> op, value |-> v])]
Taught(items, change) == {r \in items : change \in Changes(r)}

(* Moves the i-th threshold to the observed value (inside the typical      *)
(* taught range) that teaches most; the first of the nearest on a tie.     *)
FitOne(rule, i, items) ==
    LET c == rule.when[i]
        change == RuleChange(rule)
        taught == With(Taught(items, change), c.field)
        Typical(v) == taught # {} => IF c.op \in {">=", ">"} THEN v >= Low(taught, c.field)
                                                             ELSE v <= High(taught, c.field)
        observed == {v \in {r.fields[c.field] : r \in With(items, c.field)} : Typical(v)}
        At(v) == Stats([rule EXCEPT !.when[i].value = v], items)
        good == {v \in observed : /\ Precision(At(v)) >= FitPrecision
                                  /\ At(v).rejected < AtLeast(At(v).support, 1)}
        Distance(v) == AtLeast(v - c.value, c.value - v)
        best == Best(good, LAMBDA v : <<At(v).support, -Distance(v), -v>>)
    IN IF c.op \in {"==", "!="} \/ c.field \notin Numeric THEN rule
       ELSE [rule EXCEPT !.when[i].value = OrElse(best, c.value)]

Fit(rule, items) ==
    LET fitted[i \in 0..Len(rule.when)] ==
            IF i = 0 THEN rule ELSE FitOne(fitted[i - 1], i, items)
    IN fitted[Len(rule.when)]

(* Adds the context condition all supporting records share, of those that  *)
(* tell records apart: the most precise, the last by name on a tie.        *)
Tighten(rule, items, precision) ==
    LET supporting == Taught(MatchedBy(rule, items), RuleChange(rule))
        one == CHOOSE r \in supporting : TRUE
        Shared(f) == \A r \in supporting : f \in DOMAIN r.fields /\ r.fields[f] = one.fields[f]
        Varies(f) == \E r \in items : f \notin DOMAIN r.fields \/ r.fields[f] # one.fields[f]
        Narrow(f) == When(rule, f, "==", one.fields[f])
        good == {f \in Context : /\ Shared(f) /\ Varies(f)
                                 /\ Stats(Narrow(f), items).support >= MinSupport
                                 /\ Precision(Stats(Narrow(f), items)) >= precision}
    IN IF supporting = {} THEN {}
       ELSE {Narrow(f) : f \in Best(good, LAMBDA f : <<Precision(Stats(Narrow(f), items)), FieldAt(f)>>)}

(* The `field == value` that teaches the most records precisely.           *)
Categorical(rule, items) ==
    LET taught == Taught(items, RuleChange(rule))
        pairs == UNION {{<<f, r.fields[f]>> : f \in DOMAIN r.fields} : r \in taught}
        Narrow(p) == When(rule, p[1], "==", p[2])
        S(p) == Stats(Narrow(p), items)
        good == {p \in pairs : /\ Cardinality({r \in With(taught, p[1]) : r.fields[p[1]] = p[2]}) >= MinSupport
                               /\ S(p).rejected = 0
                               /\ Precision(S(p)) >= FitPrecision}
        Everywhere(f) == With(items, f) = items
    IN {Narrow(p) : p \in Best(good, LAMBDA p :
            <<S(p).support, Flag(Everywhere(p[1])), Flag(p[1] \notin Numeric),
              -NameLength[p[1]], -FieldAt(p[1]), -p[2]>>)}

(* At most two thresholds at the ends of the typical taught range, added   *)
(* one by one until the rule is precise.                                   *)
AddThreshold(rule, items) ==
    LET taught == Taught(items, RuleChange(rule))
        At(f, op) == When(rule, f, op, IF op = ">=" THEN Low(taught, f) ELSE High(taught, f))
        S(c) == Stats(At(c[1], c[2]), items)
        good == {c \in {f \in Numeric : With(taught, f) # {}} \X {">=", "<="} :
                    /\ S(c).matched > 0
                    /\ 4 * S(c).support >= 3 * Cardinality(taught)
                    /\ S(c).rejected < AtLeast(S(c).support, 1)}
    IN {At(c[1], c[2]) : c \in Best(good, LAMBDA c :
            <<Precision(S(c)), S(c).support, -FieldAt(c[1]), Flag(c[2] = ">=")>>)}

BestThreshold(rule, items) ==
    LET Precise(S) == {r \in S : Precision(Stats(r, items)) >= FitPrecision}
        Second(first) == IF first = {} \/ Precise(first) # {} THEN first
                         ELSE Precise(AddThreshold(OrElse(first, rule), items))
    IN Second(AddThreshold(rule, items))

-----------------------------------------------------------------------------
(* verify_rules: what of a reply is kept, with its counts from the data.   *)
(* A slot is <<i, j>>, the j-th setting of the i-th rule. *)
OneSettingEach(rules) == UNION {{i} \X DOMAIN rules[i].set : i \in DOMAIN rules}

EventsOf(items) == {r.event : r \in items}
Named(rule, items) ==
    IF rule.event = NoEvent /\ Cardinality(EventsOf(items)) = 1
    THEN [rule EXCEPT !.event = CHOOSE e \in EventsOf(items) : TRUE] ELSE rule

WellFormed(rule, items) ==
    LET known == UNION {DOMAIN r.fields : r \in {q \in items : q.event = rule.event}}
    IN /\ rule.event \in EventsOf(items)
       /\ rule.tool \in Tool \ ReadOnly
       /\ Len(rule.set) = 1 /\ Head(rule.set).key \in Arguments[rule.tool]
       /\ rule.when \o rule.any # <<>>
       /\ \A c \in Range(rule.when \o rule.any) : c.op \in Operators /\ c.field \in known

Fitted(rule, items) ==
    LET s == Stats(rule, items)
    IN Fit(IF s.support >= MinSupport /\ Precision(s) < MinPrecision
           THEN OrElse(Tighten(rule, items, MinPrecision), rule) ELSE rule, items)

(* The fitted rule with its counts, which the thresholds decide.           *)
WithStats(fitted, items) ==
    LET s == Stats(fitted, items)
    IN [rule |-> fitted, support |-> s.support, rejected |-> s.rejected, matched |-> s.matched]
(* slip: the counts of the rule as it was proposed *)
CountedAsProposed(rule, items) == [WithStats(rule, items) EXCEPT !.rule = Fitted(rule, items)]
Counted(rule, items) == WithStats(Fitted(rule, items), items)
Supported(s) == s.support >= MinSupport /\ Precision(s) >= MinPrecision /\ s.rejected < s.support

OfEvent(rule, items) == {r \in items : r.event = rule.event}
SameEffect(a, b) == a.event = b.event /\ RuleChange(a) = RuleChange(b)

Formed(rules, items) ==
    LET One(s) == Named([rules[s[1]] EXCEPT !.set = <<rules[s[1]].set[s[2]]>>], items)
    IN [s \in {t \in OneSettingEach(rules) : WellFormed(One(t), items)} |-> One(s)]

(* Of the supported rules for one setting, the first of those that match   *)
(* the same records, and none that matches a part of another's.            *)
Widest(counted, ids) ==
    LET Same(i, j) == SameEffect(counted[i].rule, counted[j].rule)
        sound == {i \in DOMAIN counted : Supported(counted[i])}
        unique == {i \in sound : ~\E j \in sound : Above(i, j) /\ Same(i, j) /\ ids[i] = ids[j]}
    IN {i \in unique : ~\E j \in unique : Same(i, j) /\ ids[i] \subseteq ids[j] /\ ids[i] # ids[j]}

Kept(counted, items) ==
    LET ids == [i \in DOMAIN counted |-> MatchedBy(counted[i].rule, OfEvent(counted[i].rule, items))]
        kept == InOrder(Widest(counted, ids), LAMBDA i, j : Above(j, i))
    IN [k \in DOMAIN kept |-> counted[kept[k]]]

VerifyRules(rules, items) ==
    LET formed == Formed(rules, items)
    IN Kept([s \in DOMAIN formed |-> Counted(formed[s], OfEvent(formed[s], items))], items)

Plain(kept) == [k \in DOMAIN kept |-> kept[k].rule]

-----------------------------------------------------------------------------
(* What the operators did that the rules miss, and rules fitted for it.    *)
Effects(items) == UNION {{<<r.event, c>> : c \in Changes(r)} : r \in items}
Examples(effect, items) == {r \in items : r.event = effect[1] /\ effect[2] \in Changes(r)}
Covering(effect, rules) == {r \in Range(rules) : r.event = effect[1] /\ RuleChange(r) = effect[2]}
Missed(effect, covering, items) ==
    {r \in Examples(effect, items) : \A rule \in covering : ~Matches(rule, r.fields)}

CoverageGaps(rules, items) ==
    {e \in Effects(items) :
        /\ Cardinality(Examples(e, items)) >= MinSupport
        /\ 4 * Cardinality(Missed(e, Covering(e, rules), items)) > Cardinality(Examples(e, items))}

(* A condition that is not precise enough gets thresholds.                 *)
Sharpened(rule, pool) ==
    IF rule.when = <<>> \/ Precision(Stats(rule, pool)) < FitPrecision
    THEN OrElse(BestThreshold(rule, pool), rule) ELSE rule

(* One further rule for the taught records no rule covers yet; beside      *)
(* existing rules two leftover records are taken for a coincidence.        *)
InduceOne(effect, rules, new, items) ==
    LET covering == Covering(effect, rules) \cup Range(new)
        missed == Missed(effect, covering, items)
        needed == IF covering = {} THEN MinSupport ELSE AtLeast(MinSupport, 3)
        pool == missed \cup {r \in items : r.event = effect[1] /\ effect[2] \notin Changes(r)}
        c == effect[2]
        empty == [event |-> effect[1], when |-> <<>>, any |-> <<>>, tool |-> c.tool,
                  set |-> <<[key |-> c.key, value |-> c.value]>>]
        Added(rule) == IF rule.when = <<>> THEN new ELSE Append(new, rule)
    IN IF Cardinality(missed) < needed THEN new
       ELSE Added(Sharpened(OrElse(Tighten(empty, pool, 0), OrElse(Categorical(empty, pool), empty)), pool))

(* The changes made most often first.                                      *)
InduceMissingRules(rules, items) ==
    LET Often(e) == Cardinality(Examples(e, items))
        Most(S) == CHOOSE e \in S : \A d \in S : Often(d) <= Often(e)
        Another(e, new) == InduceOne(e, rules, new, items)
        Three(e) == Another(e, Another(e, Another(e, <<>>)))
    IN MapThenFoldSet(LAMBDA first, rest : first \o rest, <<>>, Three, Most, Effects(items))

-----------------------------------------------------------------------------
(* A skill is [tools, sections]; a section is the sequence of its rules.   *)
(* slip: the reads an action needs are not listed beside it *)
ReadsOfRulesOnly(used, kept) == OwnReads
Reads(used, kept) ==
    LET conditions == UNION {Range(k.rule.when \o k.rule.any) : k \in Range(kept)}
    IN (UNION {RequiredReads[t] : t \in used \cap Tool}) \cup OwnReads
         \cup (Tool \cap {ContextOf[c.field] : c \in {d \in conditions : d.field \in Context}})

(* slip: only what was learnt now is rendered *)
NoneUnchanged(old, relearnt) == {}
Unchanged(old, relearnt) == {e \in DOMAIN old.sections \ relearnt : old.sections[e] # <<>>}

RenderSkill(kept, old) ==
    LET Before(i, j) == kept[i].support > kept[j].support \/ (kept[i].support = kept[j].support /\ i < j)
        relearnt == {k.rule.event : k \in Range(kept)}
        used == {k.rule.tool : k \in Range(kept)} \cup old.tools
        ordered(e) == InOrder({i \in DOMAIN kept : kept[i].rule.event = e}, Before)
        Section(e) == [n \in DOMAIN ordered(e) |-> kept[ordered(e)[n]].rule]
    IN [tools |-> used \cup Reads(used, kept),
        sections |-> [e \in relearnt \cup Unchanged(old, relearnt) |->
                        IF e \in relearnt THEN Section(e) ELSE old.sections[e]]]

HasRoom(text) ==
    Cardinality(UNION {{e} \X DOMAIN text.sections[e] : e \in DOMAIN text.sections}) <= MaxBody
Valid(text) ==
    /\ DOMAIN text.sections # {} /\ text.tools # {}
    /\ text.tools \subseteq Tool
    /\ \A t \in text.tools : RequiredReads[t] \subseteq text.tools
    /\ \A e \in DOMAIN text.sections : text.sections[e] # <<>>
    /\ HasRoom(text)

-----------------------------------------------------------------------------
Init ==
    /\ records \in Journals
    /\ existing \in Existing
    /\ stage = "ask" /\ attempt = 0 /\ accepted = <<>> /\ skill = NoSkill

(* A rejected output is corrected once, then the run fails.                *)
RejectOutput ==
    /\ stage' = IF attempt = 0 THEN "ask" ELSE "failed"
    /\ attempt' = 1
    /\ UNCHANGED skill

(* The part after the last reply: induction, rendering, validation.        *)
Conclude(rules) ==
    \E induced \in {InduceMissingRules(Plain(rules), records)} :
    \E final \in {IF induced = <<>> THEN rules ELSE VerifyRules(Plain(rules) \o induced, records)} :
    \E text \in {RenderSkill(final, existing)} :
       /\ accepted' = final
       /\ IF Valid(text) THEN stage' = "done" /\ skill' = text /\ UNCHANGED attempt
                         ELSE RejectOutput

Propose(reply) ==
    /\ stage = "ask"
    /\ \E kept \in {IF reply = Garbled THEN <<>> ELSE VerifyRules(reply, records)} :
          IF kept = <<>> THEN RejectOutput /\ accepted' = <<>>
          ELSE IF CoverageGaps(Plain(kept), records) = {} THEN Conclude(kept)
          ELSE stage' = "refine" /\ accepted' = kept /\ UNCHANGED <<attempt, skill>>
    /\ UNCHANGED <<records, existing>>

(* slip: the reply's rules are not verified together with the others *)
RefineAppends(reply) ==
    /\ stage = "refine"
    /\ Conclude(IF reply = Garbled THEN accepted ELSE accepted \o VerifyRules(reply, records))
    /\ UNCHANGED <<records, existing>>

(* slip: the reply's rules replace the others *)
RefineReplaces(reply) ==
    /\ stage = "refine"
    /\ \E refined \in {IF reply = Garbled THEN accepted ELSE VerifyRules(reply, records)} :
          Conclude(IF Len(refined) >= Len(accepted) THEN refined ELSE accepted)
    /\ UNCHANGED <<records, existing>>
(* _refine: more rules for the gaps; kept unless rules got fewer.          *)
Refine(reply) ==
    /\ stage = "refine"
    /\ \E refined \in {IF reply = Garbled THEN accepted
                       ELSE VerifyRules(Plain(accepted) \o reply, records)} :
          Conclude(IF Len(refined) >= Len(accepted) THEN refined ELSE accepted)
    /\ UNCHANGED <<records, existing>>

(* The model's endpoint fails: the run does.                               *)
CompleteFails ==
    /\ stage \in {"ask", "refine"}
    /\ stage' = "failed"
    /\ UNCHANGED <<records, existing, attempt, accepted, skill>>

Finished == stage \in {"done", "failed"} /\ UNCHANGED vars

LearnSkill == CompleteFails \/ \E reply \in Replies : Propose(reply) \/ Refine(reply)
Next == LearnSkill \/ Finished
Spec == Init /\ [][Next]_vars

-----------------------------------------------------------------------------
Counts(k) == [support |-> k.support, rejected |-> k.rejected, matched |-> k.matched]
Thresholds(rule) == {i \in DOMAIN rule.when : rule.when[i].op \notin {"==", "!="}}
Simple(rule) == Cardinality(Thresholds(rule)) <= 1
BoundToStamp(rule) == \E f \in Stamps : RuleChange(rule).value = <<"from", f>>
Covers(rule, r) == /\ rule.event = r.event /\ Matches(rule, r.fields)
                   /\ RuleChange(rule) \in Changes(r)

\* Whatever the replies were and however often the rules were verified again, the counts
\* that the operator reads beside a rule (render_skill) are those of the records, and they
\* are good enough: taught at least MinSupport times, mostly, and more often than rejected.
CountsAreTrue ==
    \A k \in Range(accepted) :
        /\ Counts(k) = Stats(k.rule, OfEvent(k.rule, records))
        /\ Supported(Counts(k))

\* No rule of a skill repeats another: of two rules for one setting neither matches all
\* the records the other matches (verify_rules, over replies, repairs and induction).
NoRuleIsRedundant ==
    \A i, j \in DOMAIN accepted :
        LET a == accepted[i].rule
            b == accepted[j].rule
        IN (i # j /\ SameEffect(a, b)) =>
             ~(MatchedBy(a, OfEvent(a, records)) \subseteq MatchedBy(b, OfEvent(b, records)))

\* A skill over registered tools can always be edited: verified rules rendered beside the
\* sections and tools that were there pass the validation that precedes staging, unless the
\* body has become too long for it.
RenderedIsValid ==
    (accepted # <<>> /\ (existing = NoSkill \/ Valid(existing))) =>
        LET text == RenderSkill(accepted, existing) IN HasRoom(text) => Valid(text)

\* Learning again for one event type loses nothing that was taught about another: the
\* other sections stay word for word, unless they are empty, and the tools they propose stay
\* listed.
NotRelearntIsKept ==
    skill # NoSkill =>
        /\ existing.tools \subseteq skill.tools
        /\ \A e \in DOMAIN existing.sections \ EventsOf(records) :
             existing.sections[e] # <<>> =>
                 e \in DOMAIN skill.sections /\ skill.sections[e] = existing.sections[e]

\* A rule replayed on a record that taught it proposes what the operator did there, also
\* when its value is bound to a field of the event (_bound when learning, _resolve after).
\* Not so a rule bound to a time of the event: _bound finds it, _resolve does not, so that
\* such a rule is counted as supported and staged, and never proposes anything.
ReplayGivesWhatWasTaught ==
    \A k \in Range(accepted), r \in records :
        (Covers(k.rule, r) /\ ~BoundToStamp(k.rule)) =>
            LET c == RuleChange(k.rule)
                proposed == Settings(<<k.rule>>, r.fields)
            IN /\ <<c.tool, c.key>> \in DOMAIN proposed
               /\ [tool |-> c.tool, key |-> c.key, value |-> proposed[<<c.tool, c.key>>]] \in r.calls

\* The second reply takes nothing away: a record that a verified rule answers stays answered
\* with that setting, although all rules are verified again with those of the reply and once
\* more with the induced ones (_refine, learn_skill).  Only for rules of one threshold: the
\* thresholds of a rule that has two are moved one after the other, and move again next time.
CoverageGrows ==
    [][\A reply \in Replies :
         (/\ Refine(reply)
          /\ \A k \in Range(accepted) : Simple(k.rule)
          /\ reply # Garbled => \A i \in DOMAIN reply : Simple(reply[i])) =>
            \A k \in Range(accepted), r \in records :
               Covers(k.rule, r) => \E n \in Range(accepted') : SameEffect(n.rule, k.rule) /\ Covers(n.rule, r)]_vars
=============================================================================
