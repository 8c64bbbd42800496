---------------------------- MODULE LifeCycleLock ----------------------------
(***************************************************************************)
(* The three-state intent lock of include/common/life_cycle_lock.h.        *)
(*                                                                         *)
(* The code keeps one atomic int32 _bits = SHARED*n + UPGRADED + EXCLUSIVE *)
(* with SHARED = 4, UPGRADED = 2, EXCLUSIVE = 1.  Every int32 is uniquely  *)
(* 4*q + r with r \in 0..3, so the word is modelled exactly as a record:   *)
(* sh is the (signed) count of shared holders, up and ex the two low bits. *)
(* A count can go negative in the code (one releaseShared too many) and    *)
(* the record keeps that, instead of hiding it.                            *)
(*                                                                         *)
(* Each operator is one atomic read-modify-write of the code and returns   *)
(* [ok |-> success, lock |-> the new word].  tryShared is a fetch_add      *)
(* followed, on failure, by a fetch_add(-SHARED); the transient extra      *)
(* share can only make a concurrent compare-exchange fail spuriously, and  *)
(* every such caller retries, so it is folded into one step.               *)
(***************************************************************************)
EXTENDS Integers

Free == [sh |-> 0, up |-> FALSE, ex |-> FALSE]

Result(ok, l) == [ok |-> ok, lock |-> l]

(* tryShared: fetch_add(SHARED); back out if UPGRADED or EXCLUSIVE was set. *)
TryShared(l) ==
    IF l.up \/ l.ex THEN Result(FALSE, l)
                    ELSE Result(TRUE, [l EXCEPT !.sh = @ + 1])

(* tryUpgrade: fetch_or(UPGRADED), succeeds unless EXCLUSIVE was set.  The *)
(* bit stays set even when it fails.                                       *)
TryUpgrade(l) == Result(~l.ex, [l EXCEPT !.up = TRUE])

(* tryUpgradeNonReEntrant: fetch_or(UPGRADED), succeeds only if neither    *)
(* UPGRADED nor EXCLUSIVE was set before.                                  *)
TryUpgradeNonReEntrant(l) ==
    Result(~l.up /\ ~l.ex, [l EXCEPT !.up = TRUE])

(* A tryExclusive that tests only the low bits, ignoring shared holders.   *)
TryExclusiveIgnoringShares(l) ==
    IF l.up /\ ~l.ex
    THEN Result(TRUE, [l EXCEPT !.up = FALSE, !.ex = TRUE])
    ELSE Result(FALSE, l)

(* tryExclusive: compare_exchange(UPGRADED -> EXCLUSIVE); the word must be *)
(* exactly UPGRADED, i.e. no shared holder left.                           *)
TryExclusive(l) ==
    IF l = [sh |-> 0, up |-> TRUE, ex |-> FALSE]
    THEN Result(TRUE, [sh |-> 0, up |-> FALSE, ex |-> TRUE])
    ELSE Result(FALSE, l)

(* releaseShared: fetch_add(-SHARED), unconditionally.                      *)
ReleaseShared(l) == [l EXCEPT !.sh = @ - 1]

(* releaseExclusive: fetch_and(~(EXCLUSIVE | UPGRADED)).                   *)
ReleaseExclusive(l) == [l EXCEPT !.up = FALSE, !.ex = FALSE]

=============================================================================
