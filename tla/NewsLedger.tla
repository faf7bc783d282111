----------------------------- MODULE NewsLedger -----------------------------
(***************************************************************************)
(* What table channel_news_consumption promises: a channel takes a news    *)
(* item at most once at a time, makes a video of it, publishes the video,  *)
(* and gives the item back only while nothing was made of it.              *)
(***************************************************************************)
CONSTANTS Channels, Items

VARIABLE entry   \* what each channel has done with each item

Stages == {"unused", "selected", "produced", "published"}

LedgerInit == entry = [c \in Channels |-> [i \in Items |-> "unused"]]

Move(c, i, from, to) == /\ entry[c][i] = from
                        /\ entry' = [entry EXCEPT ![c][i] = to]

LedgerNext == \E c \in Channels, i \in Items :
                \/ Move(c, i, "unused", "selected")
                \/ Move(c, i, "selected", "produced")
                \/ Move(c, i, "produced", "published")
                \/ Move(c, i, "selected", "unused")

LedgerSpec == LedgerInit /\ [][LedgerNext]_entry
=============================================================================
