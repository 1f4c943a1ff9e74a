---------------------------- MODULE MCRecording -----------------------------
(* Two feeds, two days; Kalshi's file has room for two short runs or one   *)
(* longer, Polymarket's for a marker and one envelope.                     *)
EXTENDS Recording

HighestSequence == <<3, 2>>
WhatIsWritten   == <<{"resubscribed"}, {"text"}>>
=============================================================================
