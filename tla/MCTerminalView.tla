--------------------------- MODULE MCTerminalView ---------------------------
(* Instances of TerminalView: one server, or two that two clicks on        *)
(* Connect can mix up.                                                     *)
EXTENDS TerminalView, TLC

CONSTANTS s1, s2, k1, k2

MCServers == {s1}
MCTwoServers == {s1, s2}
MCKeys == {k1, k2}
MCOneKey == {k1}

MCSymmetry == Permutations(MCTwoServers)

(* With two servers, to find a state and not to rule one out: the first    *)
(* page only, saved servers only, and no ticket that comes to nothing for  *)
(* another reason than its page.                                           *)
MCOnePage ==
    /\ page <= 1 /\ (page = 1 => open)
    /\ \A c \in 1..MAX_CALLS : calls[c].target = Unsaved => calls[c].step \in {"free", "done"}
    /\ \A t \in Tickets :
          /\ session[t].phase = "over" => socket[t] # "none"
          /\ session[t].phase = "provisioned" => socket[t] \in {"none", "connecting"}
=============================================================================
