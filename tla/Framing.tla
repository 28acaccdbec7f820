------------------------------ MODULE Framing -------------------------------
(***************************************************************************)
(* How the bytes of one read become messages: the loop over the buffer in  *)
(* extract_messages_from_rec_data (messages.rs).  A byte is Mark (0xFF),   *)
(* one of the two bytes of a length, or Other; a message is its marker,    *)
(* its length, its type and a body.                                        *)
(***************************************************************************)
EXTENDS Naturals, Sequences, SequencesExt

CONSTANTS MarkerLen,   \* 16
          MaxBody,     \* bound: bytes after the header
          MaxMessages  \* bound: messages in one read

Mark == 255
Other == 254
HeaderLen == MarkerLen + 3

\* A marker is longer than the byte of a length that may look like a part of it; the
\* first byte of a length never does (the protocol has messages of up to 4096 bytes).
ASSUME FramingConstants ==
  /\ MarkerLen \in Nat \ {0, 1} /\ MaxBody \in Nat
  /\ HeaderLen + MaxBody < 255 * 256
  /\ MaxMessages \in Nat \ {0}

\* A message with a body of n bytes, as a peer sends it.
Message(n) ==
  [k \in 1..(HeaderLen + n) |->
     CASE k <= MarkerLen -> Mark
       [] k = MarkerLen + 1 -> (HeaderLen + n) \div 256
       [] k = MarkerLen + 2 -> (HeaderLen + n) % 256
       [] OTHER -> Other]

VARIABLES sent,      \* the sizes of the bodies of the messages in the read
          tsbuf,     \* the bytes read: those of the messages, or not all of them
          i, bytes_to_skip,  \* the loop
          messages,  \* the messages found
          result     \* "running", "ok", or the error returned

framingVars == <<sent, tsbuf, i, bytes_to_skip, messages, result>>

Bytes(sizes) == FlattenSeq([k \in DOMAIN sizes |-> Message(sizes[k])])

\* The buffer of a read: whole messages, but for the last one, which the read may
\* have cut.
FramingInit ==
  /\ sent \in UNION {[1..n -> 0..MaxBody] : n \in 1..MaxMessages}
  /\ \E cut \in 0..(Len(Message(sent[Len(sent)])) - 1) :
       tsbuf = SubSeq(Bytes(sent), 1, Len(Bytes(sent)) - cut)
  /\ i = 1 /\ bytes_to_skip = 0
  /\ messages = <<>>
  /\ result = "running"

Running == result = "running" /\ i <= Len(tsbuf)

Skip ==
  /\ Running /\ bytes_to_skip > 0
  /\ bytes_to_skip' = bytes_to_skip - 1
  /\ i' = i + 1
  /\ UNCHANGED <<sent, tsbuf, messages, result>>

\* i + 16 < tsbuf.len() for an index from 0: a byte follows the marker.
MarkerAt(k) ==
  /\ k + MarkerLen <= Len(tsbuf)
  /\ \A j \in k..(k + MarkerLen - 1) : tsbuf[j] = Mark

NoMarker ==
  /\ Running /\ bytes_to_skip = 0 /\ ~MarkerAt(i)
  /\ i' = i + 1
  /\ UNCHANGED <<sent, tsbuf, bytes_to_skip, messages, result>>

\* The length that follows the marker at i, a big-endian u16, when it was read.
LengthRead == i + MarkerLen + 1 <= Len(tsbuf)
MessageLen == 256 * tsbuf[i + MarkerLen] + tsbuf[i + MarkerLen + 1]

AtMarker == Running /\ bytes_to_skip = 0 /\ MarkerAt(i)

\* Both errors lose what was found before, too.
RejectRead ==
  /\ AtMarker
  /\ \/ ~LengthRead /\ result' = "BadInt16Read"
     \/ LengthRead /\ i + MessageLen - 1 > Len(tsbuf)
          /\ result' = "MessageLenTooBig"
  /\ messages' = <<>>
  /\ UNCHANGED <<sent, tsbuf, i, bytes_to_skip>>

\* Mutant: the message is given the rest of the buffer.
TakeMessageToEnd ==
  /\ AtMarker /\ LengthRead
  /\ i + MessageLen - 1 <= Len(tsbuf)
  /\ messages' = Append(messages, SubSeq(tsbuf, i, Len(tsbuf)))
  /\ bytes_to_skip' = MessageLen
  /\ result' = IF i + MessageLen - 1 = Len(tsbuf) THEN "ok" ELSE result
  /\ i' = i + 1
  /\ UNCHANGED <<sent, tsbuf>>

\* The rest of the message is skipped, and a byte more, the first of the next one:
\* that one is not found (the comment above the loop wants every message found).
TakeMessage ==
  /\ AtMarker /\ LengthRead
  /\ i + MessageLen - 1 <= Len(tsbuf)
  /\ messages' = Append(messages, SubSeq(tsbuf, i, i + MessageLen - 1))
  /\ bytes_to_skip' = MessageLen
  /\ result' = IF i + MessageLen - 1 = Len(tsbuf) THEN "ok" ELSE result
  /\ i' = i + 1
  /\ UNCHANGED <<sent, tsbuf>>

\* Mutant: the end is reached only after a message.
EndOfBufferAfterMessage ==
  /\ result = "running" /\ i > Len(tsbuf) /\ messages # <<>>
  /\ result' = "ok"
  /\ UNCHANGED <<sent, tsbuf, i, bytes_to_skip, messages>>

EndOfBuffer ==
  /\ result = "running" /\ i > Len(tsbuf)
  /\ result' = "ok"
  /\ UNCHANGED <<sent, tsbuf, i, bytes_to_skip, messages>>

FramingNext == Skip \/ NoMarker \/ RejectRead \/ TakeMessage \/ EndOfBuffer

FramingSpec ==
  FramingInit /\ [][FramingNext]_framingVars /\ WF_framingVars(FramingNext)

-----------------------------------------------------------------------------
(* Properties                                                              *)

Whole == Len(tsbuf) = Len(Bytes(sent))

\* What is found are messages of the read: each is one that was sent, whole and no
\* byte of another with it, in the order sent and none twice, wherever the read was
\* cut.  Of a read of whole messages the first one is always among them, and only a
\* read that was cut is refused.
MessagesOfTheRead ==
  /\ \E at \in [DOMAIN messages -> DOMAIN sent] :
       /\ \A k \in DOMAIN messages : messages[k] = Message(sent[at[k]])
       /\ \A k, m \in DOMAIN messages : k < m => at[k] < at[m]
  /\ result = "ok" /\ Whole => messages # <<>> /\ messages[1] = Message(sent[1])
  /\ result \notin {"running", "ok"} => ~Whole

\* The scan ends.
ScanEnds == <>(result # "running")

=============================================================================
