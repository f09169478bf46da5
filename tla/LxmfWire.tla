------------------------------ MODULE LxmfWire ------------------------------
(***************************************************************************)
(* The LXMF wire format as node.rs reads and writes it: MessagePack on     *)
(* bytes, and the header of destination, source and signature.             *)
(*                                                                         *)
(* Offsets are those of the code and start at 0.  A wire is a record, since*)
(* only the MessagePack part is read byte by byte: dest is NoAddr where a  *)
(* foreign client stripped it, and a signature says who signed which       *)
(* region.                                                                 *)
(***************************************************************************)
EXTENDS Integers, Sequences, SequencesExt, Options

CONSTANTS
  Brace,     \* addresses whose first byte is that of "{" or that begin "\x00zl"
  Unknown,   \* what 16 bytes of a signature name when they are read as an address
  NoAddr,    \* a destination that was stripped
  NoSig      \* bytes that are no signature

HeaderLen == 96   \* destination, source and signature
AddrLen == 16
Mib16 == 16 * 1024 * 1024

Bytes(s, p, n) == SubSeq(s, p + 1, p + n)
Drop(s, n) == SubSeq(s, n + 1, Len(s))
Smaller(m, n) == IF m < n THEN m ELSE n

\* The n <= 4 bytes at offset p as a big-endian number, cut off above 16 MiB.
Num(s, p, n) ==
  CASE n = 1 -> s[p + 1]
    [] n = 2 -> 256 * s[p + 1] + s[p + 2]
    [] n = 4 /\ s[p + 1] > 1 -> Mib16 + 1
    [] n = 4 /\ s[p + 1] <= 1 -> 256 * (256 * (256 * s[p + 1] + s[p + 2]) + s[p + 3]) + s[p + 4]

-----------------------------------------------------------------------------
(* Writing                                                                 *)

\* Marker and length in front of n bytes, and of a text of n bytes
BinHeader(n) ==
  CASE n < 256 -> <<\hc4, n>>
    [] n >= 256 /\ n < 65536 -> <<\hc5, n \div 256, n % 256>>
    [] OTHER -> <<\hc6, n \div Mib16, (n \div 65536) % 256, (n \div 256) % 256, n % 256>>

StrHeader(n) ==
  CASE n < 32 -> <<\ha0 + n>>
    [] n >= 32 /\ n < 256 -> <<\hd9, n>>
    [] OTHER -> <<\hda, (n \div 256) % 256, n % 256>>

mp_bin(d) == BinHeader(Len(d)) \o d
mp_str(s) == StrHeader(Len(s)) \o s

mp_array(entries) ==
  LET n == Len(entries) IN
  (IF n <= 15 THEN <<\h90 + n>> ELSE <<\hdc, (n \div 256) % 256, n % 256>>)
    \o FlattenSeq(entries)

\* A pair of name and data: an image with its type, or a file.
Pair(x) == <<\h92>> \o mp_str(x[1]) \o mp_bin(x[2])

\* The fields of an image (0 or 1 of them) and of attached files.
build_fields_msgpack(image, files) ==
  LET parts == (IF image = None THEN <<>> ELSE << <<\h06>> \o Pair(image[1]) >>)
               \o (IF files = <<>> THEN <<>>
                   ELSE << <<\h05>> \o mp_array([i \in DOMAIN files |-> Pair(files[i])]) >>)
  IN <<\h80 + Len(parts)>> \o FlattenSeq(parts)

encode_lxmf_msgpack(ts, title, content, fields) ==
  <<\h94, \hcb>> \o ts \o mp_bin(title) \o mp_bin(content) \o fields

-----------------------------------------------------------------------------
(* Reading                                                                 *)

\* Number of elements and offset of the first one.
mp_array_header(mp) ==
  CASE mp = <<>> -> None
    [] mp # <<>> /\ mp[1] \in \h90 .. \h9f -> Some(<<mp[1] - \h90, 1>>)
    [] Len(mp) >= 3 /\ mp[1] = \hdc -> Some(<<Num(mp, 1, 2), 3>>)
    [] Len(mp) >= 5 /\ mp[1] = \hdd -> Some(<<Num(mp, 1, 4), 5>>)
    [] OTHER -> None

mp_is_numeric_marker(b) ==
  b \in 0 .. \h7f \cup \he0 .. \hff \cup \hca .. \hd3

\* Bytes that follow the marker of a number.
NumericWidth(b) ==
  CASE b \in {\hcc, \hd0} -> 1
    [] b \in {\hcd, \hd1} -> 2
    [] b \in {\hca, \hce, \hd2} -> 4
    [] b \in {\hcb, \hcf, \hd3} -> 8
    [] OTHER -> 0

\* The number at offset p, as marker and bytes, and the offset behind it.
mp_read_numeric_f64(mp, p) ==
  IF p < Len(mp) /\ mp_is_numeric_marker(mp[p + 1])
       /\ p + 1 + NumericWidth(mp[p + 1]) <= Len(mp)
    THEN LET n == 1 + NumericWidth(mp[p + 1])
         IN Some([val |-> Bytes(mp, p, n), pos |-> p + n])
    ELSE None

\* Mutant of LenWidth: the 8 bit length of a string is forgotten.
LenWidthNoStr8(b) ==
  CASE b = \hc4 -> 1
    [] b \in {\hc5, \hda} -> 2
    [] b = \hc6 -> 4
    [] OTHER -> 0

\* Bytes of the length that follows the marker of a blob or a string.
LenWidth(b) ==
  CASE b \in {\hc4, \hd9} -> 1
    [] b \in {\hc5, \hda} -> 2
    [] b = \hc6 -> 4
    [] OTHER -> 0

\* The n bytes at offset q, if they are there.
Blob(mp, q, n) ==
  [val |-> IF n > Mib16 \/ q + n > Len(mp) THEN None ELSE Some(Bytes(mp, q, n)),
   pos |-> IF n > Mib16 \/ q + n > Len(mp) THEN q ELSE q + n]

\* The bin or str whose marker b is at offset p, with a length of w bytes.
BlobBehind(mp, p, b, w) ==
  IF (b \notin \ha0 .. \hbf /\ w = 0) \/ p + 1 + w > Len(mp)
    THEN [val |-> None, pos |-> p + 1]
    ELSE Blob(mp, p + 1 + w, IF w = 0 THEN b - \ha0 ELSE Num(mp, p + 1, w))

\* The bin or str at offset p; the position moves also where there is none.
mp_read_bytes(mp, p) ==
  IF p >= Len(mp) THEN [val |-> None, pos |-> p]
                  ELSE BlobBehind(mp, p, mp[p + 1], LenWidth(mp[p + 1]))

MaxDepth == 16

\* Offset behind the bytes that the length of w bytes at offset q counts.
SkipCounted(mp, q, w) ==
  CASE q + w > Len(mp) -> IF w = 4 THEN Len(mp) ELSE q
    [] q + w <= Len(mp) /\ Num(mp, q, w) > Mib16 -> Len(mp)
    [] OTHER -> Smaller(q + w + Num(mp, q, w), Len(mp))

\* Offset behind the value at offset p, or of the first value in a container.
\* An array with a 16 or 32 bit count is skipped as if the count were bytes;
\* a map with a 32 bit count and extension types only by their marker.
Behind(mp, p) ==
  LET b == mp[p + 1] IN
  CASE NumericWidth(b) > 0 -> Smaller(p + 1 + NumericWidth(b), Len(mp))
    [] b \in \ha0 .. \hbf -> Smaller(p + 1 + b - \ha0, Len(mp))
    [] b \in {\hd9, \hc4} -> SkipCounted(mp, p + 1, 1)
    [] b \in {\hda, \hc5, \hdc} -> SkipCounted(mp, p + 1, 2)
    [] b \in {\hdb, \hc6, \hdd} -> SkipCounted(mp, p + 1, 4)
    [] b = \hde /\ p + 3 <= Len(mp) -> p + 3
    [] OTHER -> p + 1

\* Number of values in the container at offset p, and 0 for any other value.
Inner(mp, p) ==
  LET b == mp[p + 1] IN
  CASE b \in \h90 .. \h9f -> b - \h90
    [] b \in \h80 .. \h8f -> 2 * (b - \h80)
    [] b = \hde /\ p + 3 <= Len(mp) -> 2 * Num(mp, p + 1, 2)
    [] OTHER -> 0

\* Offset behind the k values that start at offset p, in containers d deep.
mp_skip(mp, k0, p0) ==
  LET after[x \in Nat \X Nat \X Nat] ==
        LET k == x[1]
            p == x[2]
            d == x[3]
        IN IF k = 0 \/ d > MaxDepth \/ p >= Len(mp) THEN p
           ELSE after[<<k - 1, after[<<Inner(mp, p), Behind(mp, p), d + 1>>], d>>]
  IN after[<<k0, p0, 0>>]

\* Bytes of the character of UTF-8 that begins with b, or 0; its second byte.
CharLen(b) ==
  CASE b < \h80 -> 1
    [] b \in \hc2 .. \hdf -> 2
    [] b \in \he0 .. \hef -> 3
    [] b \in \hf0 .. \hf4 -> 4
    [] OTHER -> 0

SecondByte(b) ==
  CASE b = \he0 -> \ha0 .. \hbf
    [] b = \hed -> \h80 .. \h9f
    [] b = \hf0 -> \h90 .. \hbf
    [] b = \hf4 -> \h80 .. \h8f
    [] OTHER -> \h80 .. \hbf

\* A character of n bytes is at offset p.
IsChar(s, p, n) ==
  /\ n > 0 /\ p + n <= Len(s)
  /\ n > 1 => s[p + 2] \in SecondByte(s[p + 1])
  /\ \A i \in 3 .. n : s[p + i] \in \h80 .. \hbf

IsUtf8(s) ==
  LET from[p \in 0 .. Len(s)] ==
        \/ p = Len(s)
        \/ IsChar(s, p, CharLen(s[p + 1])) /\ from[p + CharLen(s[p + 1])]
  IN from[0]

\* "image/jpeg" and "file": what a name that is no UTF-8 is replaced by.
NoImageType == <<\h69, \h6d, \h61, \h67, \h65, \h2f, \h6a, \h70, \h65, \h67>>
NoFileName == <<\h66, \h69, \h6c, \h65>>

from_utf8(s, default) == IF IsUtf8(s) THEN s ELSE default

PairOf(name, data, default) ==
  [val |-> IF name.val # None /\ data.val # None
             THEN Some(<<from_utf8(name.val[1], default), data.val[1]>>) ELSE None,
   pos |-> data.pos]

PairNamed(mp, name, default) == PairOf(name, mp_read_bytes(mp, name.pos), default)

\* The pair at offset p behind its marker 0x92.
ReadPair(mp, p, default) == PairNamed(mp, mp_read_bytes(mp, p + 1), default)

IsPair(mp, p) == p < Len(mp) /\ mp[p + 1] = \h92

mp_read_array_len(mp, p) ==
  CASE p < Len(mp) /\ mp[p + 1] \in \h90 .. \h9f -> [len |-> mp[p + 1] - \h90, pos |-> p + 1]
    [] p + 3 <= Len(mp) /\ mp[p + 1] = \hdc -> [len |-> Num(mp, p + 1, 2), pos |-> p + 3]
    [] p + 5 <= Len(mp) /\ mp[p + 1] = \hdd -> [len |-> Num(mp, p + 1, 4), pos |-> p + 5]
    [] OTHER -> [len |-> 0, pos |-> IF p < Len(mp) THEN p + 1 ELSE p]

AddFile(r, pair) == [r EXCEPT !.files = @ \o pair.val, !.pos = pair.pos]

\* The next of the values of an array, which may be a file.
ReadFile(mp, r) ==
  IF IsPair(mp, r.pos) THEN AddFile(r, ReadPair(mp, r.pos, NoFileName))
                       ELSE [r EXCEPT !.pos = mp_skip(mp, 1, r.pos)]

\* r with the files of the array that begins behind arr.
ReadFiles(mp, r, arr) ==
  LET after[k \in 0 .. arr.len] == IF k = 0 THEN [r EXCEPT !.pos = arr.pos]
                                             ELSE ReadFile(mp, after[k - 1])
  IN after[arr.len]

SetImage(r, pair) ==
  [r EXCEPT !.image = IF pair.val = None THEN @ ELSE pair.val, !.pos = pair.pos]

\* One key with its value.  A key that is no small number ends the reading.
ReadField(mp, r) ==
  LET value == r.pos + 1 IN
  CASE r.stop \/ r.pos >= Len(mp) \/ mp[value] >= \h80 -> [r EXCEPT !.stop = TRUE]
    [] OTHER ->
         CASE mp[value] = \h06 /\ IsPair(mp, value) -> SetImage(r, ReadPair(mp, value, NoImageType))
           [] mp[value] = \h05 -> ReadFiles(mp, r, mp_read_array_len(mp, value))
           [] OTHER -> [r EXCEPT !.pos = mp_skip(mp, 1, value)]

\* Image and files of the n fields at offset p.
ReadFields(mp, n, p) ==
  LET after[k \in 0 .. n] ==
        IF k = 0 THEN [image |-> None, files |-> <<>>, pos |-> p, stop |-> FALSE]
                 ELSE ReadField(mp, after[k - 1])
  IN after[n]

\* The same of the map at offset p; of anything else, none.
mp_read_lxmf_fields(mp, p) ==
  CASE p < Len(mp) /\ mp[p + 1] \in \h80 .. \h8f -> ReadFields(mp, mp[p + 1] - \h80, p + 1)
    [] p + 3 <= Len(mp) /\ mp[p + 1] = \hde -> ReadFields(mp, Num(mp, p + 1, 2), p + 3)
    [] OTHER -> ReadFields(mp, 0, p)

OrEmpty(x) == IF x = None THEN <<>> ELSE x[1]

Decoded(title, body, fields) ==
  Some([title |-> OrEmpty(title.val), body |-> OrEmpty(body.val),
        image |-> fields.image, files |-> fields.files])

\* What follows the title, and what follows the timestamp.
DecodeBody(mp, title, body) == Decoded(title, body, mp_read_lxmf_fields(mp, body.pos))
DecodeTitle(mp, title) == DecodeBody(mp, title, mp_read_bytes(mp, title.pos))
DecodeFrom(mp, ts) == IF ts = None THEN None ELSE DecodeTitle(mp, mp_read_bytes(mp, ts[1].pos))

decode_lxmf_payload(mp) ==
  LET h == mp_array_header(mp)
  IN IF h = None \/ (h # None /\ h[1][1] < 4) THEN None
     ELSE DecodeFrom(mp, mp_read_numeric_f64(mp, h[1][2]))

-----------------------------------------------------------------------------
(* The wire                                                                *)

Wire(dest, src, sig, mp) == [dest |-> dest, src |-> src, sig |-> sig, mp |-> mp]

WireLen(w) == HeaderLen + Len(w.mp) - (IF w.dest = NoAddr THEN AddrLen ELSE 0)

\* The address in the first 16 bytes.
FirstAddress(w) == IF w.dest = NoAddr THEN w.src ELSE w.dest

looks_like_rpc_response(w) == WireLen(w) < HeaderLen + 1 \/ FirstAddress(w) \in Brace

looks_like_lxmf_payload(mp) ==
  LET h == mp_array_header(mp)
  IN h # None /\ h[1][1] >= 4 /\ h[1][2] < Len(mp) /\ mp_is_numeric_marker(mp[h[1][2] + 1])

\* What a stripped wire looks like at the offset of a complete one: each part
\* is read 16 bytes too late.
Misread(w) ==
  /\ w.dest = NoAddr
  /\ Len(w.mp) > AddrLen
  /\ looks_like_lxmf_payload(Drop(w.mp, AddrLen))

normalize_lxmf_wire(w, my_addr) ==
  CASE w.dest # NoAddr /\ looks_like_lxmf_payload(w.mp) -> Some(w)
    [] Misread(w) -> Some(Wire(w.src, Unknown, NoSig, Drop(w.mp, AddrLen)))
    [] w.dest = NoAddr /\ ~Misread(w) /\ looks_like_lxmf_payload(w.mp) ->
         Some([w EXCEPT !.dest = my_addr])
    [] OTHER -> None

\* Mutant of lxmf_signed_payload: the header that counts the stamp stays.
lxmf_signed_payloadAsSent(mp) ==
  LET h == mp_array_header(mp)
  IN IF h = None \/ (h # None /\ h[1][1] < 4) THEN None
     ELSE Some(Bytes(mp, 0, mp_skip(mp, 4, h[1][2])))

\* The four signed elements, without a stamp.
lxmf_signed_payload(mp) ==
  LET h == mp_array_header(mp)
      pos == [k \in 0 .. 4 |-> mp_skip(mp, k, h[1][2])]
  IN IF h = None \/ (h # None /\ (h[1][1] < 4 \/ \E k \in 1 .. 4 : pos[k] <= pos[k - 1]))
       THEN None
       ELSE Some(<<\h94>> \o Bytes(mp, h[1][2], pos[4] - h[1][2]))

\* A signature by src; before release 0.3 without the hash of the region.
Signature(by, dest, src, payload, hashed) ==
  [by |-> by, dest |-> dest, src |-> src, payload |-> payload, hashed |-> hashed]

lxmf_sign(dest, src, payload) == Signature(src, dest, src, payload, TRUE)

\* What send_to and send_group put on the wire: a message without title.
lxmf_payload(dest, src, ts, content, fields) ==
  LET mp == encode_lxmf_msgpack(ts, <<>>, content, fields)
  IN Wire(dest, src, lxmf_sign(dest, src, mp), mp)

\* Mutant of verify_lxmf_signature: any signature of the right form will do.
verify_lxmf_signatureByForm(w, identities) ==
  CASE w.src \notin identities -> "unknown"
    [] w.src \in identities -> IF w.sig = NoSig THEN "invalid" ELSE "valid"

\* "valid", "invalid", or "unknown" where the identity of the source is not.
verify_lxmf_signature(w, identities) ==
  LET signed == lxmf_signed_payload(w.mp) IN
  CASE w.src \notin identities -> "unknown"
    [] w.src \in identities /\ w.sig = NoSig -> "invalid"
    [] OTHER ->
         IF \/ signed # None /\ w.sig = Signature(w.src, w.dest, w.src, signed[1], TRUE)
            \/ w.sig = Signature(w.src, w.dest, w.src, w.mp, FALSE)
           THEN "valid" ELSE "invalid"
=============================================================================
