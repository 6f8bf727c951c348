---------------------------- MODULE PushdownPaths ----------------------------
(***************************************************************************)
(* One path of the weighted pushdown system: what the weights of the       *)
(* analysis are supposed to join.  It keeps the weight of the path as      *)
(* PathWeights does, per activation, and knows nothing of the engine.      *)
(***************************************************************************)
EXTENDS ErrorPds

CONSTANT MaxCalls    \* bound on the open calls of the path

VARIABLES
    point,    \* the top stack symbol; Epsilon when the last activation returned
    frames,   \* the calls that have not returned, outermost first
    weight,   \* weight of the path inside the current activation
    prefix    \* weight of the path up to its entry

pathVars == <<point, frames, weight, prefix>>

PathInit ==
    /\ point = Start
    /\ frames = << >>
    /\ weight = One
    /\ prefix = One

Take(r) == r \in RulesFrom(point) /\ UNCHANGED program

TakeStep(r) ==
    /\ Take(r) /\ IsStep(r)
    /\ point' = r.to[1]
    /\ weight' = Extend(weight, r.weight)
    /\ UNCHANGED <<frames, prefix>>

TakePush(r) ==
    /\ Take(r) /\ IsPush(r)
    /\ Len(frames) < MaxCalls
    /\ point' = r.to[1]
    /\ frames' = Append(frames, [rule |-> r, before |-> weight, prefix |-> prefix])
    /\ prefix' = Extend(prefix, Extend(weight, r.weight))
    /\ weight' = One

TakePop(r) ==
    /\ Take(r) /\ IsPop(r)
    /\ LET summary == Extend(weight, r.weight)
           n == Len(frames)
       IN  IF n = 0
           THEN point' = Epsilon /\ weight' = summary /\ UNCHANGED <<frames, prefix>>
           ELSE LET frame == frames[n]
                IN  /\ point' = frame.rule.to[2]
                    /\ frames' = SubSeq(frames, 1, n - 1)
                    /\ weight' = Merge(frame.before, frame.rule.weight, summary, frame.rule.callee)
                    /\ prefix' = frame.prefix

PathNext ==
    \/ \E r \in program : TakeStep(r)
    \/ \E r \in program : TakePush(r)
    \/ \E r \in program : TakePop(r)
=============================================================================
