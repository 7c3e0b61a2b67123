--------------------------- MODULE MCLearnedRules ---------------------------
(* An instance of LearnedRules for TLC: five events of a queue, with the load *)
(* it reports, the order at its head, the time that was made and the kiosk's  *)
(* mode when it was answered; operators switch the mode, refuse the switch,   *)
(* or cancel the order, by its id or by its time.                             *)
EXTENDS LearnedRules, TLC

CONSTANTS Free      \* how many of the five records may have any answer

FieldNames == <<"mode", "guest", "load", "order">>
Lengths == "mode" :> 30 @@ "load" :> 10 @@ "order" :> 11 @@ "guest" :> 11
Texts == 100..310
Args == "set_mode" :> {"mode", "upsell"} @@ "cancel" :> {"order", "made"} @@ "get_mode" :> {} @@ "get_menu" :> {}
NeededReads == "set_mode" :> {"get_menu"} @@ "cancel" :> {} @@ "get_mode" :> {} @@ "get_menu" :> {}
ReadWith == "mode" :> "get_mode"

Load == <<1, 2, 3, 3, 4>>
Mode == <<0, 0, 1, 0, 0>>
Item(f, v) == [field |-> f, value |-> v]
Payload(i) == <<Item("guest", 200 + i), Item("load", Load[i]), Item("order", 100 + i), Item("made_at", 300 + i)>>
Answer(i, a) ==
    [id |-> i, event |-> "queue", payload |-> Payload(i), context |-> "mode" :> Mode[i],
     fields |-> EventFields(Payload(i), "mode" :> Mode[i]),
     kind |-> IF a = "refuse" THEN "rejected" ELSE IF a = "wait" THEN "none" ELSE "instruction",
     calls |-> CASE a \in {"switch", "refuse"} -> {[tool |-> "set_mode", key |-> "mode", value |-> 1]}
                 [] a = "cancel" -> {[tool |-> "cancel", key |-> "order", value |-> 100 + i]}
                 [] a = "cancel_made" -> {[tool |-> "cancel", key |-> "made", value |-> 300 + i]}
                 [] OTHER -> {}]
AllJournals == {{Answer(i, a[i]) : i \in 1..5} :
    a \in {b \in [1..5 -> {"switch", "refuse", "cancel", "cancel_made", "wait"}] :
              \A i \in (Free + 1)..5 : b[i] = "switch"}}

When1(f, op, v) == <<[field |-> f, op |-> op, value |-> v]>>
Rule(e, when, any, tool, set) == [event |-> e, when |-> when, any |-> any, tool |-> tool, set |-> set]
Set(k, v) == [key |-> k, value |-> v]
busy == Rule("queue", When1("load", ">=", 2), <<>>, "set_mode", <<Set("mode", <<"is", 1>>)>>)
calm == Rule("queue", When1("load", "<=", 1), When1("mode", "==", 0), "set_mode", <<Set("mode", <<"is", 1>>)>>)
both == Rule("none", When1("load", ">", 0), <<>>, "set_mode",
             <<Set("mode", <<"is", 1>>), Set("upsell", <<"is", 1>>)>>)
head == Rule("queue", When1("load", "<", 4), <<>>, "cancel", <<Set("order", <<"from", "order">>)>>)
band == Rule("queue", When1("load", ">", 2) \o When1("load", "<=", 3), <<>>, "set_mode", <<Set("mode", <<"is", 1>>)>>)
bare == Rule("queue", <<>>, <<>>, "set_mode", <<Set("mode", <<"is", 1>>)>>)
AllReplies == {Garbled, <<>>, <<busy>>, <<busy, both>>, <<calm, head>>, <<bare, band, calm>>}

pickup == <<Rule("pickup", When1("load", ">", 9), <<>>, "cancel", <<Set("order", <<"is", 7>>)>>)>>
AllExisting == {NoSkill, [tools |-> {"cancel"}, sections |-> "pickup" :> pickup],
                [tools |-> {"gone"}, sections |-> "pickup" :> pickup @@ "empty" :> <<>>]}
=============================================================================
