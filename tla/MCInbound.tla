----------------------------- MODULE MCInbound -----------------------------
(* Messages, payments and bounds for the checks of Inbound.                *)
EXTENDS Inbound, TLC

CONSTANTS
  plain, media, many, long, stamped, tiny, quote, brace, legacy, forged,
  nested, noise, large, inGroup, otherGroup,   \* messages
  me, a1, a2, mallory, group,                  \* addresses
  g1, g2,                                      \* keys of groups
  hookPay, appPay, noncePay, otherPay,         \* payments
  k1, k2, prog1, prog2, bh                     \* keys, programs, a blockhash

Ts == <<\h41, \hd9, 0, 0, 0, 0, 0, 1>>
Text(n) == [i \in 1 .. n |-> \h41]

Content(title, body, image, files) ==
  [title |-> title, body |-> body, image |-> image, files |-> files]

OwnData(c) == SentTo("data", me, a1, Ts, c)
OwnPayload == OwnData(Content(<<>>, Text(5), None, <<>>)).wire.mp

\* A message of another client, which strips the destination.
Foreign(src, c, signed, mp) ==
  [channel |-> "data", source |-> src, content |-> c, genuine |-> TRUE, key |-> None,
   wire |-> Wire(NoAddr, src, lxmf_sign(me, src, signed), mp)]

PlainText(body) == Content(<<>>, body, None, <<>>)

\* A byte for image and files, in names and data.
Files(n) == [i \in 1 .. n |-> <<Text(1), Text(2)>>]
Image == Some(<<<<\h41, \hc3, \ha9, \h41>>, Text(40)>>)

ForeignPayload(body) == encode_lxmf_msgpack(Ts, <<>>, body, <<\h80>>)
Unstripped(s) == [s EXCEPT !.wire.dest = me]

\* Integer timestamp, title and body as strings, and a stamp behind the fields.
FourElements == <<\hce, 1, 2, 3, 4>> \o mp_str(Text(5)) \o mp_str(Text(33)) \o <<\h80>>
Stamped ==
  Foreign(a1, Content(Text(5), Text(33), None, <<>>), <<\h94>> \o FourElements,
          <<\h95>> \o FourElements \o mp_bin(Text(3)))

\* An unknown field with nested values, before the image.
NestedPayload ==
  encode_lxmf_msgpack(Ts, <<>>, Text(3),
    <<\h82, \h01, \h81, \h02, \h92, \hcd, 1, 2, \hd9, 1, \h41, \h06>> \o Pair(Image[1]))
Nested ==
  Unstripped(Foreign(a1, Content(<<>>, Text(3), Image, <<>>), NestedPayload, NestedPayload))

\* A typographic quotation mark and two letters.
Quote == <<\he2, \h80, \h9c, \h41, \h41>>

SentMsgs ==
  plain :> OwnData(PlainText(Text(5)))
  @@ media :> OwnData(Content(<<>>, Text(5), Image, Files(2)))
  @@ many :> OwnData(Content(<<>>, Text(5), None, Files(16)))
  @@ long :> OwnData(PlainText(Text(256)))
  @@ stamped :> Stamped
  @@ tiny :> Foreign(a1, PlainText(Text(1)), ForeignPayload(Text(1)), ForeignPayload(Text(1)))
  @@ quote :> Foreign(a1, PlainText(Quote), ForeignPayload(Quote), ForeignPayload(Quote))
  @@ brace :> Foreign(a2, PlainText(Text(5)), ForeignPayload(Text(5)), ForeignPayload(Text(5)))
  @@ legacy :> [OwnData(PlainText(Text(5))) EXCEPT !.wire.sig =
       Signature(a1, me, a1, OwnPayload, FALSE)]
  @@ forged :> [OwnData(PlainText(Text(5))) EXCEPT !.genuine = FALSE, !.wire.sig =
       Signature(mallory, me, a1, OwnPayload, TRUE)]
  @@ nested :> Nested
  @@ noise :> [OwnData(PlainText(Text(5))) EXCEPT !.genuine = FALSE, !.wire.mp = Text(9)]
  @@ large :> SentTo("resource", me, a1, Ts, Content(<<>>, Text(256), Image, Files(16)))
  @@ inGroup :> send_group(group, g1, a2, Ts, PlainText(Text(5)))
  @@ otherGroup :> send_group(group, g2, a1, Ts, PlainText(Text(5)))

Load(msgs, pays, n) == [msgs |-> msgs, pays |-> pays, configs |-> n]

\* Every message alone, some that meet, and payments with a message behind them.
AllLoads ==
  {Load({m}, {}, 0) : m \in Msg}
  \cup {Load({plain, forged}, {}, 0), Load({media, stamped}, {}, 0), Load({many, large}, {}, 0),
        Load({inGroup, otherGroup}, {}, 0), Load({legacy, brace, large}, {}, 0)}
  \cup {Load({}, {p}, 3) : p \in Payment} \cup {Load({}, {appPay}, 4)}
  \cup {Load({plain}, {appPay}, 3)}

Clients ==
  [p \in Payment |-> CASE p = hookPay -> "hook" [] p = appPay -> "app"
                       [] p = noncePay -> "nonce" [] p = otherPay -> "other"]

\* The second payment goes to the payer itself; the first names a key in base58.
AccountsOf(payer, recipient, mint) ==
  [n \in AccountName |-> CASE n = "payer" -> payer [] n = "recipient" -> recipient
                           [] n = "mint" -> mint [] OTHER -> n]
AskedAccounts ==
  [p \in Payment |->
     CASE p = hookPay -> AccountsOf("alice", "bob", "mint")
       [] p = appPay -> AccountsOf("carol", "carol", "mint")
       [] p = noncePay -> AccountsOf("dora", "bob", "mint")
       [] p = otherPay -> AccountsOf("erin", "bob", BadHex)]
=============================================================================
