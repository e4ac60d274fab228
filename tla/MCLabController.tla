--------------------------- MODULE MCLabController ---------------------------
(* A stack of two, the wrapped KPM exporter and a UE.  A first command is     *)
(* over: it brought run r1 up or failed its preflight.  Two more may overlap. *)
EXTENDS LabController, TLC

CONSTANTS c0, r1

MCComponents == <<"kpm", "ue1">>
MCWrapped == {"kpm"}
MCPorted == {"kpm", "ue1"}
MCSymmetry == Permutations(Cmds \ {c0})

MCStack == {c0} \X {"kpm", "ue1"}
MCUp == [IdleCmd EXCEPT !.pc = "ok", !.cfg = r1, !.next = 3]
MCFailed == [IdleCmd EXCEPT !.pc = "err", !.cfg = Baseline]

MCInit ==
    /\ \/ /\ cmd = [c \in Cmds |-> IF c = c0 THEN MCUp ELSE IdleCmd]
          /\ active = r1
          /\ file = MCStack
          /\ leaders = MCStack
          /\ children = {<<c0, "kpm">>}
       \/ /\ cmd = [c \in Cmds |-> IF c = c0 THEN MCFailed ELSE IdleCmd]
          /\ active = None
          /\ file = {} /\ leaders = {} /\ children = {}
    /\ foreign = {}
    /\ faults = 0
    /\ seen = {}
    /\ overlapped = FALSE

MCSpec == MCInit /\ [][Next]_vars
==============================================================================
