---------------------------- MODULE LxmfMessages ----------------------------
(***************************************************************************)
(* The messages that LXMF clients pack, as a grammar: which bytes are a    *)
(* payload with a given content, and how it is signed.  It says more than  *)
(* node.rs writes: timestamps of any width, blobs and strings with any     *)
(* header, further fields with nested values, and a stamp behind the       *)
(* fields.  The proofs about Inbound are about every message of this form. *)
(***************************************************************************)
EXTENDS LxmfWire

Byte == {b \in Nat : b < 256}

\* The bytes s behind the byte b
Marked(b, s) == <<b>> \o s

-----------------------------------------------------------------------------
(* Values                                                                  *)

\* Blobs of up to 16 MiB, such that are texts, and texts whose length fits into 16 bits
BlobData == {d \in Seq(Byte) : Len(d) <= Mib16}
TextData == {d \in BlobData : IsUtf8(d)}
Name == {d \in Seq(Byte) : IsUtf8(d) /\ Len(d) < 65536}

\* h is the header of the blob or string d: a marker with the length, or a marker
\* and the length in as many bytes as the marker says.
Heads(h, d) ==
  /\ h \in Seq(Byte) /\ d \in Seq(Byte) /\ Len(d) <= Mib16
  /\ LenWidth(h[1]) \in {0, 1, 2, 4} /\ Len(h) = 1 + LenWidth(h[1])
  /\ IF LenWidth(h[1]) = 0 THEN h[1] \in \ha0 .. \hbf /\ h[1] - \ha0 = Len(d)
                           ELSE Num(h, 1, LenWidth(h[1])) = Len(d)

\* The bytes s are a blob or string with the data d.
Text(s, d) == \E h : Heads(h, d) /\ s = h \o d

\* The bytes v are a number, a boolean or nil; a number, as a timestamp is.
Scalar(v) ==
  /\ v \in Seq(Byte) /\ Len(v) = 1 + NumericWidth(v[1])
  /\ v[1] \in 0 .. \h7f \cup \he0 .. \hff \cup {\hc0, \hc2, \hc3} \cup \hca .. \hd3

Number(v) == Scalar(v) /\ mp_is_numeric_marker(v[1])

\* The bytes v are an array of the values vs, or a map of as many keys and values.
Container(v, vs) ==
  \E n \in 0 .. 15 :
    \/ Len(vs) = n /\ v = Marked(\h90 + n, FlattenSeq(vs))
    \/ Len(vs) = 2 * n /\ v = Marked(\h80 + n, FlattenSeq(vs))

\* level[n] has values in containers of up to n levels.
Levels(level) ==
  /\ level \in [0 .. 15 -> SUBSET Seq(Byte)]
  /\ \A n \in 0 .. 15 : \A v \in level[n] :
       \/ Scalar(v)
       \/ \E d : Text(v, d)
       \/ n > 0 /\ \E vs \in Seq(level[n - 1]) : Container(v, vs)

\* Values of any kind, up to the depth to which they are skipped in a field
Value == {v \in Seq(Byte) : \E level : Levels(level) /\ v \in level[15]}

-----------------------------------------------------------------------------
(* Fields                                                                  *)

\* Names with data: an image with its type, or a file
Attachment == TextData \X BlobData
Images == Option(Attachment)

\* The bytes s are the name x[1] and the data x[2], as an array.
NamedData(s, x) ==
  \E a, b : Text(a, x[1]) /\ Text(b, x[2]) /\ s = Marked(\h92, a \o b)

\* The bytes s are the files, as an array.
FileArray(s, files) ==
  \E es \in Seq(Seq(Byte)) :
    /\ s = mp_array(es) /\ Len(es) = Len(files) /\ Len(es) < 65536
    /\ \A i \in 1 .. Len(es) : NamedData(es[i], files[i])

\* A field with the image, with the files, or with something this client ignores
ImageField(f, image) == image # None /\ \E v : NamedData(v, image[1]) /\ f = Marked(\h06, v)
FilesField(f, files) == \E v : FileArray(v, files) /\ f = Marked(\h05, v)
OtherField(f) == \E key \in 0 .. \h7f, v \in Value : key \notin {\h05, \h06} /\ f = Marked(key, v)

Field(f, image, files) == ImageField(f, image) \/ FilesField(f, files) \/ OtherField(f)

\* The bytes s are a map of up to 15 fields, in any order: the image and the files,
\* if there are any, and others.
FieldMap(s, image, files) ==
  \E fs \in Seq(Seq(Byte)) :
    /\ Len(fs) <= 15 /\ s = Marked(\h80 + Len(fs), FlattenSeq(fs))
    /\ \A i \in 1 .. Len(fs) : Field(fs[i], image, files)
    /\ image # None => \E i \in 1 .. Len(fs) : ImageField(fs[i], image)
    /\ files # <<>> => \E i \in 1 .. Len(fs) : FilesField(fs[i], files)
    /\ \A i, j \in 1 .. Len(fs) :
         FilesField(fs[i], files) /\ FilesField(fs[j], files) => i = j

-----------------------------------------------------------------------------
(* Payloads                                                                *)

\* What a message says
MessageContent == [title : BlobData, body : BlobData, image : Images, files : Seq(Attachment)]

\* The four parts of a payload with content c
Parts(ts, title, body, fields, c) ==
  Number(ts) /\ Text(title, c.title) /\ Text(body, c.body) /\ FieldMap(fields, c.image, c.files)

\* The bytes e are timestamp, title, body and fields.
Elements(e, c) ==
  \E ts, title, body, fields :
    Parts(ts, title, body, fields, c) /\ e = ts \o (title \o (body \o fields))

\* The payload mp has the elements e, and may have more behind them.
Payload(mp, e) ==
  \E n \in 4 .. 15, rest \in Seq(Byte) : mp = Marked(\h90 + n, e \o rest)

\* The source of the wire w signed its elements e for the address to; or, before
\* release 0.3, the payload.
SignedFor(w, e, to) ==
  /\ w.sig \in {lxmf_sign(to, w.src, Marked(\h94, e)), Signature(w.src, to, w.src, w.mp, FALSE)}
  /\ w.sig # NoSig

-----------------------------------------------------------------------------
(* What this client sends                                                  *)

\* An image and files with names of fewer than 65536 bytes, and a text without title;
\* the time is a floating point number of eight bytes.
OwnImages == Option(Name \X BlobData)
OwnFileLists == {files \in Seq(Name \X BlobData) : Len(files) < 65536}
OwnContent == [title : {<<>>}, body : BlobData, image : OwnImages, files : OwnFileLists]
Timestamp == {ts \in Seq(Byte) : Len(ts) = 8}
=============================================================================
