--------------------------- MODULE ReleaseCatalog ---------------------------
(***************************************************************************)
(* What the release storage promises its callers, with no files, locks or  *)
(* crashes in sight: a catalog of releases, each of which appears in one    *)
(* step with everything it needs, whose artifacts never change afterwards,  *)
(* whose notes may be replaced, and whose withdrawal is final.              *)
(*                                                                         *)
(* ReleaseStore (src/src/storage.rs) is checked to implement it.            *)
(***************************************************************************)
CONSTANTS Channels,   \* release channels
          Versions,   \* normalized release versions
          Manifests,  \* [platforms, notes, withdrawn] records
          Notes,      \* changelog texts
          NoRelease   \* marks a channel/version with no release

VARIABLE catalog

Keys == Channels \X Versions

Init == catalog = [k \in Keys |-> NoRelease]

(* put_release: a new, offered release.                                    *)
Publish(k, m) ==
  /\ catalog[k] = NoRelease
  /\ ~m.withdrawn
  /\ catalog' = [catalog EXCEPT ![k] = m]

(* copy_release: the release of another channel, as it is right now.       *)
Copy(from, to) ==
  /\ catalog[from] # NoRelease
  /\ catalog[to] = NoRelease
  /\ from[2] = to[2]
  /\ catalog' = [catalog EXCEPT ![to] = catalog[from]]

(* patch_changelog: new notes, everything else preserved.                  *)
Patch(k, n) ==
  /\ catalog[k] # NoRelease
  /\ catalog' = [catalog EXCEPT ![k].notes = n]

(* withdraw_release: never undone by any other operation.                  *)
Withdraw(k) ==
  /\ catalog[k] # NoRelease
  /\ catalog' = [catalog EXCEPT ![k].withdrawn = TRUE]

Next ==
  \E k \in Keys :
    \/ \E m \in Manifests : Publish(k, m)
    \/ \E from \in Keys : Copy(from, k)
    \/ \E n \in Notes : Patch(k, n)
    \/ Withdraw(k)

Spec == Init /\ [][Next]_catalog
=============================================================================
