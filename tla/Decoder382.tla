----------------------------- MODULE Decoder382 -----------------------------
(***************************************************************************)
(* The decoder of the Kamstrup protocol that a proxy logs its traffic      *)
(* with: protocols/kamstrup/meter_protocol/decoder_382.py, one direction   *)
(* (decode_in and decode_out differ in their magic byte only).  It is fed  *)
(* the chunks of a stream, and keeps what it has of a frame from one chunk *)
(* to the next; what a chunk has after the end of a frame it drops.        *)
(***************************************************************************)
EXTENDS Integers, Sequences, FiniteSets

CONSTANTS MaxBytes, MaxChunk

\* The byte a frame begins with, the one it ends with, the one that escapes
\* the next, and all others.
Symbols == {"magic", "eot", "escape", "other"}

VARIABLES parsing, escaped, \* in_parsing, in_data_escaped
          data,      \* how many bytes of a frame there are
          raised,    \* has the decoder raised an exception?  It may be fed again,
                     \* for another connection
          decoded,   \* how many frames have been decoded or discarded
          stream,    \* all that it has been fed
          aligned    \* has no chunk gone on after the end of a frame, and no
                     \* frame been discarded?

vars == <<parsing, escaped, data, raised, decoded, stream, aligned>>

Init ==
    /\ parsing = FALSE /\ escaped = FALSE /\ data = 0 /\ raised = FALSE
    /\ decoded = 0 /\ stream = <<>> /\ aligned = TRUE

TypeOK ==
    /\ parsing \in BOOLEAN /\ escaped \in BOOLEAN /\ data \in 0..MaxBytes
    /\ raised \in BOOLEAN /\ decoded \in 0..MaxBytes /\ aligned \in BOOLEAN
    /\ stream \in Seq(Symbols) /\ Len(stream) <= MaxBytes
    /\ data > 0 => parsing

----------------------------------------------------------------------------
\* What one byte does: "on", or how decode_in returns or raises.
Decoding == [parsing |-> parsing, escaped |-> escaped, data |-> data, how |-> "on"]

\* The end of a frame.  valid_crc takes two bytes after the first; the bytes
\* of a frame with a good checksum may yet be too few for its command.
EndOfFrame(d, crc) ==
    CASE d.data < 3 \/ crc = "short" -> [d EXCEPT !.how = "raises"]
      [] d.data >= 3 /\ crc = "bad" ->
           [d EXCEPT !.how = "discards", !.parsing = FALSE, !.data = 0]
      [] OTHER -> [d EXCEPT !.how = "returns", !.data = 0]

\* Mutant of Decoded: the byte after an escape stays escaped.
DecodedEscaped(d, b, crc) ==
    CASE d.how # "on" -> d
      [] d.how = "on" /\ ~d.parsing /\ b # "magic" -> [d EXCEPT !.how = "raises"]
      [] d.how = "on" /\ d.escaped -> [d EXCEPT !.data = @ + 1]
      [] d.how = "on" /\ d.parsing /\ ~d.escaped /\ b = "escape" -> [d EXCEPT !.escaped = TRUE]
      [] d.how = "on" /\ d.parsing /\ ~d.escaped /\ b = "eot" -> EndOfFrame(d, crc)
      [] OTHER -> [d EXCEPT !.parsing = TRUE, !.data = @ + 1]

\* A byte where a frame should begin is to be logged, but an integer has no
\* encode.  The byte after an escape is data, whatever it is.
Decoded(d, b, crc) ==
    CASE d.how # "on" -> d
      [] d.how = "on" /\ ~d.parsing /\ b # "magic" -> [d EXCEPT !.how = "raises"]
      [] d.how = "on" /\ d.escaped -> [d EXCEPT !.escaped = FALSE, !.data = @ + 1]
      [] d.how = "on" /\ d.parsing /\ ~d.escaped /\ b = "escape" -> [d EXCEPT !.escaped = TRUE]
      [] d.how = "on" /\ d.parsing /\ ~d.escaped /\ b = "eot" -> EndOfFrame(d, crc)
      [] OTHER -> [d EXCEPT !.parsing = TRUE, !.data = @ + 1]

\* decode_in over the bytes of a chunk.
After(chunk, crc) ==
    LET d[n \in 0..Len(chunk)] ==
          IF n = 0 THEN Decoding ELSE Decoded(d[n - 1], chunk[n], crc)
    IN  d

Feed ==
    \E n \in 1..MaxChunk : \E chunk \in [1..n -> Symbols], crc \in {"good", "bad", "short"} :
      LET after == After(chunk, crc) IN
      /\ Len(stream) + n <= MaxBytes
      /\ parsing' = after[n].parsing /\ escaped' = after[n].escaped
      /\ data' = after[n].data
      /\ raised' = (raised \/ after[n].how = "raises")
      /\ decoded' = decoded + IF after[n].how \in {"returns", "discards"} THEN 1 ELSE 0
      /\ stream' = stream \o chunk
      /\ aligned' = (aligned /\ after[n - 1].how = "on" /\ after[n].how # "discards")

Spec == Init /\ [][Feed]_vars

----------------------------------------------------------------------------
\* What the protocol says of a stream: a byte is escaped when an odd number of
\* escapes comes right before it, and an end that is not escaped ends a frame.
EscapesBefore(n) == {i \in 1..(n - 1) : \A j \in i..(n - 1) : stream[j] = "escape"}

Ends == {n \in 1..Len(stream) : stream[n] = "eot" /\ Cardinality(EscapesBefore(n)) % 2 = 0}

(* However the stream is cut into chunks, the decoder has decoded as many      *)
(* frames as there are unescaped ends in it, as long as no chunk went on after *)
(* the end of a frame, no frame was discarded and nothing raised               *)
(* (decoder_382.py:73-107: the state kept from one call to the next).          *)
DecodesEveryFrame == aligned /\ ~raised => decoded = Cardinality(Ends)
=============================================================================
