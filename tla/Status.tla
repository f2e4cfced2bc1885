------------------------------- MODULE Status -------------------------------
(***************************************************************************)
(* Status (src/LearnCC/util/status.cc): an OK status has a NULL state_;    *)
(* any other holds a new[] array                                           *)
(*   state_[0..3]  length of the message (uint32, host byte order)         *)
(*   state_[4]     code                                                    *)
(*   state_[5..]   msg, or msg ": " msg2 when msg2 is not empty            *)
(* A state_ is a sequence of bytes; message text is a sequence of tokens  *)
(* (one per word of the literal), so lengths and the separator are kept.  *)
(* The host is little-endian.  Messages are a few tokens long, so the     *)
(* uint32 sums len1 + 2 + len2 and size + 5 never wrap here.              *)
(***************************************************************************)
EXTENDS Naturals, Sequences

kOk == 0
kNotFound == 1
kCorruption == 2
kNotSupported == 3
kInvalidArgument == 4
kIOError == 5

\* The NULL state_ of Status::OK().
OKState == <<>>

\* memcpy of a uint32 to and from four bytes, little-endian.
PutUint32(v) == <<v % 256, (v \div 256) % 256, (v \div 65536) % 256, (v \div 16777216) % 256>>
GetUint32(b) == b[1] + b[2] * 256 + b[3] * 65536 + b[4] * 16777216

Separator == <<":", " ">>

\* Faulty variant of NewState whose size leaves out the ": " separator.
NewStateNoSeparatorSize(code, msg, msg2) ==
    LET size == Len(msg) + Len(msg2)
    IN  PutUint32(size) \o <<code>> \o msg
          \o (IF Len(msg2) # 0 THEN Separator \o msg2 ELSE <<>>)

\* Status::Status(code, msg, msg2): size = len1 + (len2 ? 2 + len2 : 0)
\* as a uint32, then the code byte, msg, and ": " msg2 when len2 > 0.
NewState(code, msg, msg2) ==
    LET size == Len(msg) + (IF Len(msg2) # 0 THEN 2 + Len(msg2) ELSE 0)
    IN  PutUint32(size) \o <<code>> \o msg
          \o (IF Len(msg2) # 0 THEN Separator \o msg2 ELSE <<>>)

\* Status::CopyState: the first size + 5 bytes of state.
CopyState(state) == SubSeq(state, 1, GetUint32(state) + 5)

\* Status::code() (status.h): kOk for NULL, else state_[4].
Code(state) == IF state = OKState THEN kOk ELSE state[5]

\* The prefix ToString writes for each code; snprintf's "Unknown code(%d): "
\* for any other byte.
TypeString(c) ==
    CASE c = kOk              -> <<"OK">>
      [] c = kNotFound        -> <<"NotFound", ":", " ">>
      [] c = kCorruption      -> <<"Corruption", ":", " ">>
      [] c = kNotSupported    -> <<"Not implemented", ":", " ">>
      [] c = kInvalidArgument -> <<"Invalid argument", ":", " ">>
      [] c = kIOError         -> <<"IO error", ":", " ">>
      [] OTHER                -> <<"Unknown code", c, ":", " ">>

\* Status::ToString: "OK" for NULL, else the type prefix and the length
\* bytes of message that follow the code.
ToString(state) ==
    IF state = OKState THEN <<"OK">>
    ELSE TypeString(Code(state)) \o SubSeq(state, 6, 5 + GetUint32(state))

\* The named constructors of status.h used by the table code.
Corruption(msg) == NewState(kCorruption, msg, <<>>)
IOError(msg, msg2) == NewState(kIOError, msg, msg2)
=============================================================================
