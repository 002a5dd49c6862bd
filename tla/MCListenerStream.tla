--------------------------- MODULE MCListenerStream ---------------------------
(* One set, one listener, two channels of two groups, one source. *)
EXTENDS ListenerStream, TLC

CONSTANTS c1, c2, g1, g2

MCGroupOf == c1 :> g1 @@ c2 :> g2
Plain(mode, tgs, groups) == [mode |-> mode, tgs |-> tgs, groups |-> groups]

\* Both modes; a set in groups mode that kept talkgroups of another group.
MCChoices == {Plain("talkgroups", {c1}, {}), Plain("groups", {c2}, {g1})}
=============================================================================
