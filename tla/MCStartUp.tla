------------------------------- MODULE MCStartUp -------------------------------
(* Small instances of StartUp for TLC. *)
EXTENDS StartUp, TorrentFile

CONSTANTS a1, a2, a3

\* Keys of one byte: a, t, i; n, p, h, l, f, d.
ShortKeys ==
  [announce |-> <<97>>, tiers |-> <<116>>, info |-> <<105>>, name |-> <<110>>,
   pieceLength |-> <<112>>, pieces |-> <<104>>, length |-> <<108>>, files |-> <<102>>,
   path |-> <<100>>]

\* The names that matter for the order: name, piece length, pieces.
RealKeys ==
  [ShortKeys EXCEPT
     !.name        = <<110, 97, 109, 101>>,
     !.pieceLength = <<112, 105, 101, 99, 101, 32, 108, 101, 110, 103, 116, 104>>,
     !.pieces      = <<112, 105, 101, 99, 101, 115>>,
     !.length      = <<108, 101, 110, 103, 116, 104>>]

\* The trackers: two over UDP, one over HTTP, one that the client cannot speak to; and the
\* URL of a torrent that has none.
U1 == <<49>>
U2 == <<50>>
H3 == <<51>>
W4 == <<52>>
No == <<>>
AllUrls  == {U1, U2, H3, W4, No}
SchemeOf == [u \in AllUrls |-> CASE u \in {W4, No} -> "other" [] u = H3 -> "http" [] OTHER -> "udp"]
SwarmOf  == [u \in AllUrls |-> CASE u = U1 -> {a1} [] u = U2 -> {a2} [] OTHER -> {a1, a3}]

\* A file of five bytes in three pieces of two; hashes are one byte.
Single == (Key.name :> Bytes(<<120>>)) @@ (Key.length :> Number(5))
Hashes == (Key.pieceLength :> Number(2)) @@ (Key.pieces :> Bytes(<<1, 2, 3>>))
Part(path, n) == Dict((Key.path :> List(<<Bytes(path)>>)) @@ (Key.length :> Number(n)))
\* Two files of two and four bytes.
Multi == (Key.name :> Bytes(<<120>>)) @@ (Key.files :> List(<<Part(<<121>>, 2), Part(<<122>>, 4)>>))

Torrent(info, announce, tiers) ==
  Dict((Key.announce :> Bytes(announce)) @@ (Key.info :> Dict(info @@ Hashes)) @@
       (Key.tiers :> List([i \in DOMAIN tiers |-> List([k \in DOMAIN tiers[i] |-> Bytes(tiers[i][k])])])))

\* Torrents with every tracker and with one, and bencoded objects that are not torrents.
SomeObjects ==
  {Torrent(Single, U1, << <<U1, H3>>, <<W4, U2>> >>), Torrent(Multi, H3, <<>>),
   Number(-10), List(<<Bytes(<<>>)>>), Dict(Key.announce :> Bytes(U1)), Dict(Key.info :> Number(0)),
   Dict((Key.info :> Dict(<<>>)) @@ (Key.announce :> Number(1))),
   Dict(Key.info :> Dict(Key.files :> List(<<Dict(<<>>)>>)))}
\* Files of three bytes in three pieces of two.
Misfit == (Key.name :> Bytes(<<120>>)) @@ (Key.length :> Number(3))
\* A file as other tools write it.
File(v) == [bytes |-> Canonical(v), info |-> IF IsTorrent(v) THEN Canonical(v[2][Key.info]) ELSE <<>>]
\* One that goes on after the object.
Longer(f) == [f EXCEPT !.bytes = @ \o <<10>>]
SomeUploads ==
  {File(v) : v \in SomeObjects} \cup
  {Longer(File(Torrent(Single, No, <<>>))), File(Torrent(Misfit, No, <<>>))}
RealUploads == {File(Torrent(Single, U1, <<>>))}

Msg(id, payload) == [id |-> id, payload |-> payload]
\* A handshake and then messages, as bytes.
Says(greeting, messages) ==
  LET handshake == [i \in 1..HandshakeLen |-> 0]
      Upto(n) == handshake \o FlattenSeq([k \in 1..n |-> Build(messages[k])])
  IN  [greeting |-> greeting, messages |-> messages, bytes |-> Upto(Len(messages)),
       starts |-> [k \in 1..(Len(messages) + 1) |-> Len(Upto(k - 1))]]

\* Ten pieces: two bytes of a bitfield, with six spare bits; one byte leaves out two pieces.
\* Byte 160 is 1010 0000, 64 is 0100 0000.
StreamsByPeer ==
  [p \in Peers |->
     CASE p = a1 -> {Says("same", <<KeepAlive, Msg(5, <<160, 64>>), Msg(4, Word(1)), Msg(1, <<>>)>>),
                     Says("same", <<Msg(4, Word(0)), Msg(5, <<0, 0>>), Msg(4, Word(9)), Msg(4, Word(10))>>)}
       [] p = a2 -> {Says("same", <<Msg(5, <<64>>), Msg(4, Word(9)), Msg(7, <<0, 0, 0, 0, 0, 0, 0, 0, 7>>), Msg(7, <<0>>)>>),
                     Says("same", <<Msg(0, <<>>), Msg(5, <<0>>), Msg(1, <<>>)>>)}
       [] OTHER  -> {Says("same", <<Msg(4, <<1>>), Msg(1, <<>>)>>), Says("other", <<>>)}]
AllStreams == UNION Range(StreamsByPeer)
===============================================================================
