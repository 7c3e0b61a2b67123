------------------------ MODULE MCCapabilityDiscovery ------------------------
(* An instance of CapabilityDiscovery for TLC: two servers of the accuracy    *)
(* service, which the deployment may know by its URL, and one of a service    *)
(* that only Hermes knows.  The tools are those the documents name.           *)
EXTENDS CapabilityDiscovery
CONSTANTS takeAway, dineIn, signageServer, accuracy, signage,
          accuracyContext, remake, rework, promos, show, orderAccuracy, l1, l2
Servers == <<takeAway, dineIn, signageServer>>
Services == [s \in ToSet(Servers) |-> IF s = signageServer THEN signage ELSE accuracy]
Exposed == [s \in ToSet(Servers) |-> IF s = signageServer THEN {show, promos}
                                     ELSE {remake, accuracyContext, rework}]
ServiceOfTool == [t \in {accuracyContext, remake, rework, promos, show} |->
                    IF t \in {promos, show} THEN signage ELSE accuracy]
Defaults == { [name |-> accuracyContext, read |-> TRUE, reads |-> {}, owner |-> TRUE],
               [name |-> remake, read |-> FALSE, reads |-> {accuracyContext}, owner |-> TRUE] }
DefaultSkills == [s \in {orderAccuracy} |-> {accuracyContext, remake}]
LearnedSkills == [l \in {l1, l2} |-> IF l = l1 THEN {promos, show} ELSE {accuracyContext, remake}]
D(services, disabledTools, disabledSkills) ==
    [services |-> services, tools |-> disabledTools, skills |-> disabledSkills]
All == {D({accuracy}, {}, {orderAccuracy, l2}), D({accuracy}, {accuracyContext}, {}),
        D({}, {promos}, {}), D({}, {remake}, {})}
ReadDisabled == {D({accuracy}, {accuracyContext}, {})}
=============================================================================
