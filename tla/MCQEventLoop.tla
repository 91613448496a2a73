---------------------------- MODULE MCQEventLoop ----------------------------
(* Two receivers; the first has an event of each priority. *)
EXTENDS QEventLoop, TLC

CONSTANTS a, b, c, r1, r2

MCReceiver == a :> r1 @@ b :> r1 @@ c :> r2
MCPriority == a :> 0 @@ b :> 1 @@ c :> 0

=============================================================================
