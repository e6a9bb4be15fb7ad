---------------------------- MODULE MCBackOffice ----------------------------
(* One account stored and one not yet, the version of a policy a deploy has    *)
(* superseded, three days of lists staged in either order, and three versions  *)
(* of a secret.                                                                *)
EXTENDS BackOffice, TLC

CONSTANTS a, b, old, krw, usd

MCCode(v) == IF v = usd THEN "USD_CASH" ELSE "KRW_CASH"
MCScope(v) == IF v = usd THEN "USD" ELSE "KRW"

row(state, id) == [state |-> state, id |-> id]

Stored(revision, bound, policies, universe) ==
    [accounts |-> [x \in Accounts |->
                     IF x = a THEN [NewAccount EXCEPT !.revision = revision] ELSE NoAccount],
     bound |-> [x \in Accounts |-> [active |-> IF x = a THEN bound ELSE {}, past |-> {}]],
     policies |-> policies,
     universe |-> universe,
     secrets |-> <<"ACTIVE", "STORED", "NONE">>]

MCInitialStores ==
    {Stored(1, {old}, [v \in Versions |-> IF v = krw THEN "INACTIVE" ELSE "ACTIVE"],
            <<row("ACTIVE", 1), row("STAGED", 3), row("STAGED", 2)>>),
     Stored(0, {}, [v \in Versions |-> IF v = old THEN "INACTIVE" ELSE "ACTIVE"],
            <<row("ACTIVE", 2), row("STAGED", 1), row("NONE", 0)>>),
     Stored(0, {}, [v \in Versions |-> IF v = old THEN "ACTIVE" ELSE "NONE"],
            <<row("STAGED", 1), row("STAGED", 2), row("NONE", 0)>>)}

Given(operations) == {k \in Gated \cup Ungated \cup Unaudited : k[1] \in operations}

(* Commands on different tables meet nowhere: four groups that share theirs. *)
MCMenus ==
    {Given({"CREATE", "DELETE", "ENABLE", "DISABLE", "BIND_PROVIDER"}),
     Given({"DELETE", "CREATE_POLICY", "ACTIVATE_POLICY", "BIND_POLICY"}),
     Given({"STAGE", "ACTIVATE_UNIVERSE"}),
     Given({"REGISTER_SECRET", "ACTIVATE_SECRET", "RETIRE_SECRET"})}

Alike == Permutations(Requests) \cup Permutations(Approvals)
=============================================================================
