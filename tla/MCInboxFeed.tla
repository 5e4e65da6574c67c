---------------------------- MODULE MCInboxFeed ----------------------------
(* InboxFeed on streams of a few packets of one to three frames. *)
EXTENDS InboxFeed

MixedPackets == <<3, 1, 2, 2>>

SplitPackets == <<2, 2, 1>>
===========================================================================
