--------------------------- MODULE PublishLedger ---------------------------
(***************************************************************************)
(* What table video_publish_statuses promises of one video, whoever        *)
(* publishes it and however often: a publication attempt is entered as a   *)
(* whole, for every connected platform at once, with its outcome; a        *)
(* platform that took the video names that upload, which is newer than any *)
(* the ledger named before, and one that did not keeps what it named.      *)
(***************************************************************************)
EXTENDS Naturals

CONSTANT Platforms

VARIABLE entry   \* the row of each platform, as every session sees it

\* Uploads to a platform are numbered in the order the platform takes them.
Rows  == [status : {"none", "uploading", "published", "failed"}, id : Nat]
NoRow == [status |-> "none", id |-> 0]

Follows(old, new) ==
  \/ new.status = "published" /\ new.id > old.id
  \/ new.status = "failed" /\ new.id = old.id

LedgerInit == entry = [p \in Platforms |-> NoRow]

Attempt == /\ entry' \in [Platforms -> Rows]
           /\ \A p \in Platforms : Follows(entry[p], entry'[p])

LedgerSpec == LedgerInit /\ [][Attempt]_entry
=============================================================================
