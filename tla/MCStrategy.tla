----------------------------- MODULE MCStrategy -----------------------------
(* Instances of Strategy: swings against one earlier bar, one warm-up bar, two *)
(* bars to a date, and tapes of a few thirty-second buckets of two units.      *)
EXTENDS Strategy

Bar(o, h, l, c, v, osc) == [t |-> 0, o |-> o, h |-> h, l |-> l, c |-> c, v |-> v, osc |-> osc]
Middle == Bar(9, 9, 7, 7, 4, 1)
Lower == Bar(7, 8, 6, 6, 2, 1)
Lowest == Bar(6, 8, 5, 6, 2, 2)      \* a lower low that MACD does not confirm
Highest == Bar(8, 10, 8, 9, 3, 0)    \* a higher high that it does not confirm
MCShapes == {Middle, Lower, Lowest, Highest}
Traded(at, price, qty, side) == [at |-> at, price |-> price, qty |-> qty, side |-> side]
(* Sellers dry up on the way down; buyers on the way up, the last print busy; a *)
(* tape within one bucket; one too thin to rank.                                *)
Falling == <<Traded(0, 8, 6, "SELL"), Traded(2, 7, 5, "SELL"), Traded(4, 6, 3, "SELL"),
             Traded(5, 7, 1, "BUY"), Traded(6, 5, 2, "SELL"), Traded(10, 8, 6, "BUY")>>
Rising == <<Traded(0, 5, 5, "BUY"), Traded(2, 6, 4, "BUY"), Traded(4, 8, 3, "BUY"),
            Traded(6, 9, 2, "BUY"), Traded(8, 7, 6, "SELL"), Traded(10, 6, 6, "SELL")>>
Burst == <<Traded(8, 6, 2, "SELL"), Traded(9, 8, 3, "BUY"), Traded(9, 4, 1, "SELL")>>

(* A market still to be printed over a tape that is stored, and a market that   *)
(* has printed a setup over a tape that is being stored by two instances.       *)
Closed(shapes) == [i \in DOMAIN shapes |-> [shapes[i] EXCEPT !.t = i]]
Quiet(mode, shapes, tape) ==
    [shadow |-> mode, bars |-> Closed(shapes), coming |-> 5 - Len(shapes), prints |-> tape,
     head |-> Len(tape), read |-> Len(tape)]
Busy(mode, shapes, tape) ==
    [shadow |-> mode, bars |-> Closed(shapes), coming |-> 0, prints |-> tape,
     head |-> 1, read |-> 1]
Fall == <<Middle, Middle, Lower, Lowest, Middle>>
Rise == <<Middle, Lowest, Middle, Highest, Middle>>
MCStarts ==
    {Quiet(FALSE, <<Middle, Middle, Lower>>, Falling), Quiet(FALSE, <<Middle, Lowest, Middle>>, Rising),
     Quiet(TRUE, <<Middle, Middle, Lower>>, Falling), Quiet(FALSE, <<Middle, Middle, Lower>>, Burst),
     Busy(FALSE, Fall, Falling), Busy(TRUE, <<Lower>> \o Rise, Rising)}
MCDaily == <<1, 2, 3, 5>>
MCHeads == {4, 6}

MCTargets == {0, 2}
MCCalendar ==
    [captured |-> 0, valid |-> 99, mondays |-> {6},
     events |-> {[stars |-> 3, at |-> 3, before |-> 1, nfp |-> FALSE, close |-> 0,
                  surprise |-> "NO", normal |-> 1, strong |-> 2]}]
MCSession == [captured |-> 0, valid |-> 99, open |-> 0, close |-> 9, cutoff |-> 1]
==============================================================================
