---------------------------- MODULE MCReceiveLoop ----------------------------
EXTENDS ReceiveLoop

\* A peer device opens a session and writes on it; a receipt; a typing notice.
\* A reply on the session we opened ourselves, an envelope of a sealed sender
\* and one whose content does not parse.
MCKind == [hello |-> "prekey", text |-> "whisper", receipt |-> "receipt",
           typing |-> "silent", reply |-> "whisper", sealed |-> "sealed",
           broken |-> "badcontent"]
MCEnvelopes == DOMAIN MCKind
MCBase == [e \in MCEnvelopes |->
             IF e \in {"reply", "broken", "typing"} THEN "ours" ELSE "theirs"]

\* listen(journal=True), on sessions with SPQR state and on such without;
\* receive(), draining, and persistent with a limit.
Listening == [drain |-> FALSE, listen |-> TRUE, journal |-> TRUE, spqr |-> TRUE,
              mail |-> {"hello", "text", "receipt"}, sends |-> 0]
Plain == [Listening EXCEPT !.spqr = FALSE, !.mail = {"reply", "broken", "typing"},
                      !.sends = 1]
OneShot == [drain |-> TRUE, listen |-> FALSE, journal |-> FALSE, spqr |-> FALSE,
            mail |-> {"hello", "text"}, sends |-> 1]
Bounded == [OneShot EXCEPT !.drain = FALSE, !.journal = TRUE,
                    !.mail = {"hello", "text", "sealed"}, !.sends = 0]

MCModes == {Listening, Plain, OneShot, Bounded}
PoisonModes == {[Plain EXCEPT !.spqr = TRUE, !.sends = 0]}
==============================================================================
