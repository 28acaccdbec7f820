-------------------------------- MODULE Octets ---------------------------------
(***************************************************************************)
(* The bytes of a message: a sequence of numbers below 256, indexed from 0 *)
(* as in the code (utils.rs, messages/header.rs), and the octets a prefix  *)
(* takes in a message (messages/update.rs).                                *)
(***************************************************************************)
EXTENDS Naturals, Sequences

\* tsbuf[i], tsbuf.get(..end).is_some() and the big-endian u16 at i.
At(buf, i) == buf[i + 1]
Has(buf, end) == end <= Len(buf)
U16At(buf, i) == 256 * At(buf, i) + At(buf, i + 1)

U16(n) == <<(n \div 256) % 256, n % 256>>

\* marker, length and type.
Header(type, length) == [k \in 1..16 |-> 255] \o U16(length) \o <<type>>

MinMessageLen == 19
MaxMessageLen == 4096

-----------------------------------------------------------------------------
(* Prefixes.  A prefix is a mask length and four octets.                   *)

\* Mutant: a prefix of 17 to 24 bits is read as if it had four octets.
RouteLenBytesTooLong(prefix_len) ==
  CASE prefix_len \in 17..32 -> 4
    [] prefix_len \in 9..16  -> 2
    [] prefix_len \in 0..8   -> 1

\* get_route_len_bytes; it panics on other lengths.
RouteLenBytes(prefix_len) ==
  CASE prefix_len \in 25..32 -> 4
    [] prefix_len \in 17..24 -> 3
    [] prefix_len \in 9..16  -> 2
    [] prefix_len \in 0..8   -> 1

\* The octets of a prefix that UpdateMessage::convert_to_bytes sends.
SentOctets(len) ==
  CASE len = 32      -> 4
    [] len \in 24..31 -> 3
    [] len \in 16..23 -> 2
    [] len \in 0..15  -> 1

\* The octets a prefix takes on the wire by the standard (RFC 4271, 4.3).
StandardOctets(len) == (len + 7) \div 8

\* NLRI::new, as a sequence: nothing for a length it refuses.
NewNlri(len, prefix) ==
  IF len \in 1..32 THEN <<[len |-> len, prefix |-> prefix]>> ELSE <<>>

\* Reading a prefix at i panics unless its length is good and the buffer has it.
PrefixFits(buf, i) ==
  /\ At(buf, i) <= 32
  /\ Has(buf, i + 1 + RouteLenBytes(At(buf, i)))

PrefixAt(buf, i) ==
  NewNlri(At(buf, i),
          [k \in 1..4 |-> IF k <= RouteLenBytes(At(buf, i))
                          THEN At(buf, i + k) ELSE 0])

=============================================================================
