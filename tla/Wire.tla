-------------------------------- MODULE Wire -------------------------------
(***************************************************************************)
(* How messages become bytes and bytes messages: biostream.h, PublicXY.h,  *)
(* xieyi.h, DBOperatorXY.h and MoGuiEncrypt.cpp.                           *)
(*                                                                         *)
(* A byte is a number below Base (256 in the program); char, short, int    *)
(* and long long take 1, 2, 3 and 4 bytes (1, 2, 4 and 8), so that the     *)
(* widths stay different while TLC can cover the ends of their ranges.     *)
(* Members are written in the order of a layout, the sequence of their     *)
(* types; operator>> reads them in the same order.                         *)
(***************************************************************************)
EXTENDS Integers, SequencesExt

CONSTANTS
  Base,        \* the values of a byte
  MaxString,   \* MAX_STRING_SIZE
  MaxVector,   \* MAX_VECTOR_SIZE
  NameSize,    \* MAX_USERNAME_SIZE, MAX_PASSWORD_SIZE
  SessionSize, \* MAX_SESSION_SIZE
  KeyLen,      \* KEYLEN32
  MaxData      \* TestXieYi::MAX_DATA

ASSUME WireSizes ==
  /\ Base \in Nat /\ Base % 2 = 0 /\ Base > 5
  /\ \A s \in {MaxString, MaxVector, NameSize, SessionSize, KeyLen, MaxData} :
       s \in Nat \ {0} /\ s < Base * Base
  /\ KeyLen < Base

Char == 1
Short == 2
Long == 3
LongLong == 4
Sizes == <<Char, Short, Long, LongLong>>

(* The length byte that announces a two-byte length.                       *)
LongForm == Base - 1

Least(a, b) == IF a < b THEN a ELSE b

-----------------------------------------------------------------------------
(* Numbers: little endian, negative ones in two's complement.              *)

Bytes == 0..(Base - 1)

(* How many numbers n bytes can hold.                                      *)
Power[n \in 0..LongLong] == IF n = 0 THEN 1 ELSE Base * Power[n - 1]

Number(v, size) ==
  LET rest[i \in 0..size] == IF i = 0 THEN v ELSE rest[i - 1] \div Base
  IN  [i \in 1..size |-> rest[i - 1] % Base]

UnsignedOf(bytes) ==
  LET high[i \in 0..Len(bytes)] ==
        IF i = 0 THEN 0 ELSE bytes[Len(bytes) + 1 - i] + Base * high[i - 1]
  IN  high[Len(bytes)]

SignedOf(bytes) ==
  LET n == UnsignedOf(bytes)
      range == Power[Len(bytes)]
  IN  IF 2 * n >= range THEN n - range ELSE n

Signed(size) == -(Power[size] \div 2) .. (Power[size] \div 2 - 1)
Unsigned(size) == 0 .. (Power[size] - 1)

(* Mutation of SFlag: the upper bounds alone decide.                       *)
SFlagUpper(n) ==
  IF n = 0 THEN 0
  ELSE CHOOSE k \in 1..4 : n < Power[Sizes[k]] \div 2
                            /\ \A j \in 1..(k - 1) : n >= Power[Sizes[j]] \div 2

(* The flag of a big number: DATA_FLAG_0, or the narrowest type for it.    *)
SFlag(n) ==
  IF n = 0 THEN 0
  ELSE CHOOSE k \in 1..4 : n \in Signed(Sizes[k]) /\ \A j \in 1..(k - 1) : n \notin Signed(Sizes[j])

UFlag(n) ==
  IF n = 0 THEN 0
  ELSE CHOOSE k \in 1..4 : n \in Unsigned(Sizes[k]) /\ \A j \in 1..(k - 1) : n \notin Unsigned(Sizes[j])

BigNumber(flag, n) == <<flag>> \o IF flag = 0 THEN <<>> ELSE Number(n, Sizes[flag])

-----------------------------------------------------------------------------
(* The types of the members.                                               *)

S(size) == [type |-> "signed", size |-> size]
U(size) == [type |-> "unsigned", size |-> size]
SBig == [type |-> "sbig", size |-> LongLong]
UBig == [type |-> "ubig", size |-> LongLong]
Text(max) == [type |-> "text", size |-> Least(max, MaxString)]
Chars(n) == [type |-> "chars", size |-> n]
KeyBytes == [type |-> "key", size |-> KeyLen]
DataBytes == [type |-> "data", size |-> MaxData]
Vector(max, of) == [type |-> "vector", size |-> Least(max, MaxVector), of |-> of]

(* What a member's type can be, and its values.                            *)
Fields ==
  [type : {"signed", "unsigned"}, size : 1..LongLong]
    \cup [type : {"sbig", "ubig"}, size : {LongLong}]
    \cup [type : {"text"}, size : 0..MaxString]
    \cup [type : {"chars"}, size : Nat]
    \cup [type : {"key"}, size : {KeyLen}]
    \cup [type : {"data"}, size : {MaxData}]
    \cup [type : {"vector"}, size : 0..MaxVector, of : 1..LongLong]

HasType(v, f) ==
  CASE f.type \in {"signed", "sbig"} -> v \in Signed(f.size)
    [] f.type \in {"unsigned", "ubig"} -> v \in Unsigned(f.size)
    [] f.type = "text"   -> v \in Seq(Bytes)
    [] f.type = "chars"  -> v \in Seq(Bytes) /\ Len(v) = f.size
    [] f.type \in {"key", "data"} -> v \in Seq(Bytes) /\ Len(v) <= f.size
    [] f.type = "vector" -> v \in Seq(Unsigned(f.of))

CString(s) == (IF Len(s) < LongForm THEN <<Len(s)>> ELSE <<LongForm>> \o Number(Len(s), Short)) \o s

(* What InString and InVector refuse with a range error.                   *)
InRange(f, v) == f.type \in {"text", "vector"} => Len(v) <= f.size

Write(f, v) ==
  CASE f.type \in {"signed", "unsigned"} -> Number(v, f.size)
    [] f.type = "sbig"   -> BigNumber(SFlag(v), v)
    [] f.type = "ubig"   -> BigNumber(UFlag(v), v)
    [] f.type = "text"   -> CString(v)
    [] f.type = "chars"  -> v
    [] f.type = "key"    -> <<Len(v)>> \o v
    [] f.type = "data"   -> Number(Len(v), Short) \o v
    [] f.type = "vector" -> Number(Len(v), Short) \o
                              FlattenSeq([i \in DOMAIN v |-> Number(v[i], f.of)])

(* The bytes at the head of in that tell how much follows them, ...        *)
HeaderSize(f, in) ==
  CASE f.type \in {"signed", "unsigned", "chars"} -> 0
    [] f.type \in {"sbig", "ubig", "key"} -> 1
    [] f.type = "text" -> IF in # <<>> /\ in[1] = LongForm THEN 3 ELSE 1
    [] f.type \in {"data", "vector"} -> Short

(* ... how much follows, ...                                               *)
ContentSize(f, header) ==
  CASE f.type \in {"signed", "unsigned", "chars"} -> f.size
    [] f.type \in {"sbig", "ubig"} ->
         IF header[1] = 0 THEN 0 ELSE Sizes[Least(header[1], 4)]
    [] f.type = "key"    -> Least(header[1], f.size)
    [] f.type = "text"   -> UnsignedOf(IF Len(header) = 1 THEN header ELSE Tail(header))
    [] f.type = "data"   -> UnsignedOf(header)
    [] f.type = "vector" -> f.of * UnsignedOf(header)

(* ... and what OutString, OutVector and TestXieYi refuse.                 *)
TooLong(f, header) ==
  \/ f.type = "text" /\ Len(header) = 3 /\ ContentSize(f, header) > f.size
  \/ f.type = "data" /\ ContentSize(f, header) > f.size
  \/ f.type = "vector" /\ UnsignedOf(header) > f.size

ValueOf(f, content) ==
  CASE f.type \in {"signed", "sbig"} -> SignedOf(content)
    [] f.type \in {"unsigned", "ubig"} -> UnsignedOf(content)
    [] f.type \in {"text", "chars", "key", "data"} -> content
    [] f.type = "vector" ->
         [i \in 1..(Len(content) \div f.of) |->
            UnsignedOf(SubSeq(content, f.of * (i - 1) + 1, f.of * i))]

(* A stream being read: what is left, the values read, whether a read has  *)
(* thrown (nothing is read after that).                                    *)
Reading(bytes) == [left |-> bytes, vals |-> <<>>, ok |-> TRUE]

(* The set binds the stream's value, which TLC would otherwise compute     *)
(* anew for every use.                                                     *)
Read(stream, f) ==
  LET After(bis) ==
        LET h == HeaderSize(f, bis.left)
            header == SubSeq(bis.left, 1, h)
            end == h + ContentSize(f, header)
        IN  IF \/ ~bis.ok
               \/ Len(bis.left) < h
               \/ TooLong(f, header)
               \/ Len(bis.left) < end
            THEN [bis EXCEPT !.ok = FALSE]
            ELSE [left |-> SubSeq(bis.left, end + 1, Len(bis.left)),
                  vals |-> Append(bis.vals, ValueOf(f, SubSeq(bis.left, h + 1, end))),
                  ok |-> TRUE]
  IN  CHOOSE read \in {After(bis) : bis \in {stream}} : TRUE

-----------------------------------------------------------------------------
(* The messages of the program.                                            *)

EncryptVer    == <<U(Short)>>
CheckAct      == <<U(Short)>>
Req_Heart     == <<U(LongLong)>>
Resp_Heart    == <<U(LongLong)>>
ReqKey        == <<U(Char)>>
RespKey       == <<KeyBytes>>
DateTime      == <<U(Char), U(Long)>>
BatchProtocol == <<U(Char), U(Short), U(Short)>>
TestXieYi     == <<DataBytes>>
SessionData   == <<Chars(SessionSize)>>
(* operator>> of a list is commented out in the source; its user reads the *)
(* members in the order in which they are written.                         *)
XieYiList     == <<S(Short), Vector(MaxVector, Short)>>
ReqGamePlayerConnect ==
  <<S(Short), U(Long), U(Char), U(Char), U(Char), Text(NameSize), Text(NameSize), Text(SessionSize)>>
RespGamePlayerConnect == <<S(Short), U(Long), U(Char), Text(SessionSize)>>
RWDB_WinLossLog ==
  <<S(LongLong), S(Short), U(Long), S(Short), S(Short), S(Short), S(Long), S(LongLong)>>
    \o <<S(Short), S(Short), S(Short), S(Short)>>

(* operator<< of a message, and whether it throws a range error.           *)
Encode(layout, vals) == FlattenSeq([i \in DOMAIN layout |-> Write(layout[i], vals[i])])
Encodable(layout, vals) == \A i \in DOMAIN layout : InRange(layout[i], vals[i])

(* operator>>: the values read, or the error that ExplainMsg returns.      *)
ExplainMsg(layout, data) ==
  LET bis[i \in 0..Len(layout)] ==
        IF i = 0 THEN Reading(data) ELSE Read(bis[i - 1], layout[i])
      end == bis[Len(layout)]
  IN  IF end.ok THEN end.vals ELSE "error"

-----------------------------------------------------------------------------
(* Encryption: AES-CFB keeps the length; each byte is combined with one    *)
(* that depends on the key and on what was produced before it.  The key is *)
(* fixed here, as it is for one message.                                   *)
IV == 1

encrypt(data) ==
  LET out[i \in 0..Len(data)] == IF i = 0 THEN IV ELSE (data[i] + out[i - 1]) % Base
  IN  [i \in DOMAIN data |-> out[i]]

decrypt(data) ==
  [i \in DOMAIN data |-> (data[i] - (IF i = 1 THEN IV ELSE data[i - 1])) % Base]

-----------------------------------------------------------------------------
(* Frames: a length of one byte, or LongForm and a length of two, then the id  *)
(* of the message and its data.                                            *)

Frame(id, data) ==
  (IF Len(data) < LongForm THEN <<Len(data)>> ELSE <<LongForm>> \o Number(Len(data), Short))
    \o Number(id, Short) \o data

(* CRecvMsgPacket::GetDataFromBuf: the first frame of a buffer; used is 0  *)
(* while it is not complete.                                               *)
GetDataFromBuf(buf) ==
  LET h == IF buf # <<>> /\ buf[1] = LongForm THEN 1 + Short ELSE 1
      xylen == UnsignedOf(IF h = 1 THEN SubSeq(buf, 1, 1) ELSE SubSeq(buf, 2, h))
      end == h + Short + xylen
  IN  IF Len(buf) < h + Short \/ Len(buf) < end
      THEN [used |-> 0, id |-> 0, data |-> <<>>]
      ELSE [used |-> end,
            id   |-> UnsignedOf(SubSeq(buf, h + 1, h + Short)),
            data |-> SubSeq(buf, h + Short + 1, end)]
=============================================================================
