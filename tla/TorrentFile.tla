------------------------------ MODULE TorrentFile ------------------------------
(***************************************************************************)
(* A .torrent file (src/src/torrent.py): what TorrentFile.__init__ makes of *)
(* the bytes of a file.  For TLC only, as BencodeEncode is.                 *)
(*                                                                          *)
(* Abstractions: text is its bytes; the SHA-1 of the info dictionary is the *)
(* bytes that are hashed; the value of a field that is a number or a list   *)
(* has that type.                                                           *)
(*                                                                          *)
(* A definition whose comment starts with "Slip" is not part of the model   *)
(* (see PieceScheduler).                                                    *)
(***************************************************************************)
EXTENDS BencodeEncode

CONSTANTS
  Key,      \* the keys of a torrent, as bytes
  HashLen   \* bytes of a piece's hash: 20

ASSUME KeyAssumption ==
  DOMAIN Key = {"announce", "tiers", "info", "name", "pieceLength", "pieces", "length", "files", "path"}
ASSUME HashLenAssumption == HashLen \in Nat \ {0}

\* dict.get
Get(d, k, default) == IF k \in DOMAIN d THEN d[k] ELSE default

\* The length of each file that is listed; an entry without a path raises KeyError.
FileLengths(info) ==
  IF Key.files \in DOMAIN info
  THEN [i \in DOMAIN info[Key.files][2] |-> info[Key.files][2][i][2][Key.length][2]]
  ELSE <<Get(info, Key.length, Number(0))[2]>>

\* What can be taken out of a decoded file: anything else raises, as TypeError, KeyError or
\* AttributeError.
IsTorrent(v) ==
  /\ v[1] = "dict"
  /\ Key.info \in DOMAIN v[2]
  /\ v[2][Key.info][1] = "dict"
  /\ Get(v[2], Key.announce, Bytes(<<>>))[1] = "bytes"
  /\ LET info == v[2][Key.info][2] IN
       /\ Get(info, Key.name, Bytes(<<>>))[1] = "bytes"
       /\ Key.files \in DOMAIN info => \A i \in DOMAIN info[Key.files][2] :
            {Key.path, Key.length} \subseteq DOMAIN info[Key.files][2][i][2]

\* The attributes of a TorrentFile.
Metadata(v) ==
  LET raw  == v[2]
      info == raw[Key.info][2]
      tier(t) == [k \in DOMAIN t[2] |-> t[2][k][2]]
      list == Get(raw, Key.tiers, List(<<>>))[2]
  IN  [announce    |-> Get(raw, Key.announce, Bytes(<<>>))[2],
       tiers       |-> [i \in DOMAIN list |-> tier(list[i])],
       infoRaw     |-> Encode(raw[Key.info]),
       pieceLength |-> Get(info, Key.pieceLength, Number(0))[2],
       pieces      |-> (Len(Get(info, Key.pieces, Bytes(<<>>))[2]) + HashLen - 1) \div HashLen,
       total       |-> FoldLeft(LAMBDA sum, n : sum + n, 0, FileLengths(info))]

\* TorrentFile(path), for a file that decodes to v.
Fields(v) == IF IsTorrent(v) THEN Returns(Metadata(v)) ELSE Raises
===============================================================================
