------------------------------ MODULE Framing ------------------------------
(***************************************************************************)
(* The frame codecs of rust-core/src/framing.rs: HDLC between phones, KISS *)
(* to an RNode.  A frame is a sequence of bytes; a deframer is a record of *)
(* the fields of its struct and of the frames it has completed.            *)
(***************************************************************************)
EXTENDS Naturals, Sequences, SequencesExt

Byte == 0 .. 255

HDLC_FLAG == \h7e
HDLC_ESC == \h7d

\* byte ^ 0x20
Flip(byte) == IF (byte \div 32) % 2 = 0 THEN byte + 32 ELSE byte - 32

hdlc_escape(byte) ==
  IF byte \in {HDLC_FLAG, HDLC_ESC} THEN <<HDLC_ESC, Flip(byte)>> ELSE <<byte>>

hdlc_encode(data) ==
  <<HDLC_FLAG>> \o FlattenSeq([i \in DOMAIN data |-> hdlc_escape(data[i])]) \o <<HDLC_FLAG>>

HdlcDeframer == [buf |-> <<>>, in_frame |-> FALSE, escape_next |-> FALSE, frames |-> <<>>]

HdlcByte(d, byte) ==
  CASE byte = HDLC_FLAG ->
         [buf |-> <<>>, in_frame |-> TRUE, escape_next |-> FALSE,
          frames |-> IF d.in_frame /\ d.buf # <<>> THEN Append(d.frames, d.buf) ELSE d.frames]
    [] byte # HDLC_FLAG /\ ~d.in_frame -> d
    [] byte # HDLC_FLAG /\ d.in_frame /\ d.escape_next ->
         [d EXCEPT !.buf = Append(@, Flip(byte)), !.escape_next = FALSE]
    [] byte = HDLC_ESC /\ d.in_frame /\ ~d.escape_next -> [d EXCEPT !.escape_next = TRUE]
    [] OTHER -> [d EXCEPT !.buf = Append(@, byte)]

\* feed, with the frames of this call
hdlc_feed(d, data) ==
  LET after[n \in 0 .. Len(data)] ==
        IF n = 0 THEN [d EXCEPT !.frames = <<>>] ELSE HdlcByte(after[n - 1], data[n])
  IN after[Len(data)]

-----------------------------------------------------------------------------

KISS_FEND == \hc0
KISS_FESC == \hdb
KISS_TFEND == \hdc
KISS_TFESC == \hdd
KISS_CMD_DATA == 0
NoCommand == \hff   \* the sentinel until the command byte is read

kiss_escape(byte) ==
  CASE byte = KISS_FEND -> <<KISS_FESC, KISS_TFEND>>
    [] byte = KISS_FESC -> <<KISS_FESC, KISS_TFESC>>
    [] OTHER -> <<byte>>

\* The frames of the firmware may have another command than those of the phone.
KissFrame(command, data) ==
  <<KISS_FEND, command>> \o FlattenSeq([i \in DOMAIN data |-> kiss_escape(data[i])])
    \o <<KISS_FEND>>

kiss_encode(data) == KissFrame(KISS_CMD_DATA, data)

KissDeframer ==
  [buf |-> <<>>, in_frame |-> FALSE, escape_next |-> FALSE, command |-> 0, frames |-> <<>>]

\* A frame that is over: what was read of it, if anything.
KissDone(d) ==
  IF d.in_frame /\ d.buf # <<>> THEN Append(d.frames, <<d.command, d.buf>>) ELSE d.frames

\* Mutant: an escape is carried over into the next frame.
KissFendEscaping(d) ==
  [buf |-> <<>>, in_frame |-> TRUE, escape_next |-> d.escape_next, command |-> NoCommand,
   frames |-> KissDone(d)]

KissFend(d) ==
  [buf |-> <<>>, in_frame |-> TRUE, escape_next |-> FALSE, command |-> NoCommand,
   frames |-> KissDone(d)]

KissUnescaped(byte) ==
  CASE byte = KISS_TFEND -> KISS_FEND [] byte = KISS_TFESC -> KISS_FESC [] OTHER -> byte

KissData(d, byte) ==
  CASE d.escape_next -> [d EXCEPT !.buf = Append(@, KissUnescaped(byte)), !.escape_next = FALSE]
    [] ~d.escape_next /\ byte = KISS_FESC -> [d EXCEPT !.escape_next = TRUE]
    [] OTHER -> [d EXCEPT !.buf = Append(@, byte)]

KissByte(d, byte) ==
  IF byte = KISS_FEND THEN KissFend(d)
  ELSE IF ~d.in_frame THEN d
  ELSE IF d.command = NoCommand THEN [d EXCEPT !.command = byte]
  ELSE KissData(d, byte)

kiss_feed(d, data) ==
  LET after[n \in 0 .. Len(data)] ==
        IF n = 0 THEN [d EXCEPT !.frames = <<>>] ELSE KissByte(after[n - 1], data[n])
  IN after[Len(data)]
=============================================================================
