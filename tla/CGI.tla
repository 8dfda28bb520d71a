--------------------------------- MODULE CGI ---------------------------------
(***************************************************************************)
(* The string codecs and the query-string parser of src/src/pthr_cgi.c.    *)
(* A C string is a sequence of byte values 0..255 (its terminating NUL not *)
(* included).  A char holding a byte >= 128 is negative on the build's     *)
(* signed char; isalnum of a negative int is undefined, and glibc's table  *)
(* in the C locale answers 0 for those bytes, as IsAlnum does here.  The   *)
(* shifts and masks of cgi_escape give the same digits for a negative      *)
(* char as for the unsigned byte (arithmetic shift, then & 0xf).           *)
(***************************************************************************)
EXTENDS Integers, Sequences, SequencesExt

\* The bytes of the ASCII characters the codecs treat specially.
SP == 32
PCT == 37
AMP == 38
PLUS == 43
COMMA == 44
MINUS == 45
EQ == 61

IsAlnum(c) == c \in (48..57) \cup (65..90) \cup (97..122)

\* hexdigits[] = "0123456789abcdef".
HexDigit(d) == IF d < 10 THEN 48 + d ELSE 97 + d - 10

\* cgi_escape (pool, str): alphanumerics, ',' and '-' are kept, ' ' becomes
\* '+', and every other byte becomes '%' and two lower-case hex digits.
EscapeByte(c) ==
  IF IsAlnum(c) \/ c \in {COMMA, MINUS} THEN <<c>>
  ELSE IF c = SP THEN <<PLUS>>
  ELSE <<PCT, HexDigit((c \div 16) % 16), HexDigit(c % 16)>>

cgi_escape(s) == FlattenSeq([i \in DOMAIN s |-> EscapeByte(s[i])])

\* hex_to_int (c): the value of a hex digit of either case, or -1.
hex_to_int(c) ==
  CASE c \in 48..57  -> c - 48
    [] c \in 97..102 -> c - 97 + 10
    [] c \in 65..70  -> c - 65 + 10
    [] OTHER         -> -1

\* A C string ends at its first NUL: what a caller of a function returning
\* new_str sees.
CString(s) ==
  LET z == SelectInSeq(s, LAMBDA c : c = 0)
  IN  IF z = 0 THEN s ELSE SubSeq(s, 1, z - 1)

\* The loop of cgi_unescape from index i (1-based) on: '%' followed by two
\* hex digits (the test i+2 < len of the 0-based loop) becomes that byte,
\* '+' becomes ' ', anything else is copied.
RECURSIVE Unescape(_, _)
Unescape(s, i) ==
  IF i > Len(s) THEN <<>>
  ELSE IF s[i] = PCT /\ i + 2 <= Len(s)
          /\ hex_to_int(s[i + 1]) >= 0 /\ hex_to_int(s[i + 2]) >= 0
       THEN <<hex_to_int(s[i + 1]) * 16 + hex_to_int(s[i + 2])>> \o Unescape(s, i + 3)
  ELSE <<IF s[i] = PLUS THEN SP ELSE s[i]>> \o Unescape(s, i + 1)

cgi_unescape(s) == CString(Unescape(s, 1))

-----------------------------------------------------------------------------
(* The parameters of a cgi object: a sequence of <<name, value>> pairs in   *)
(* the order insert_param pushed them; cgi_param_list (c, name) is the      *)
(* subsequence of values pushed under name (the vector shash maps it to).  *)

\* pstrcsplit (pool, qs, '&'), of the c2lib string library: the fields of
\* qs between the delimiters.
RECURSIVE SplitOn(_, _)
SplitOn(s, d) ==
  LET k == SelectInSeq(s, LAMBDA c : c = d)
  IN  IF k = 0 THEN <<s>>
      ELSE <<SubSeq(s, 1, k - 1)>> \o SplitOn(SubSeq(s, k + 1, Len(s)), d)

(* A fault: parameter values stored without unescaping.                   *)
insert_param_raw(c, name, value) == Append(c, <<name, value>>)

\* insert_param (c, name, value): push the unescaped value on the vector of
\* name (creating it if the name is new).
insert_param(c, name, value) == Append(c, <<name, cgi_unescape(value)>>)

\* One field of the query string: split at its first '='; a field without
\* one is the parameter name=1 (the static string one, also unescaped).
InsertField(c, p) ==
  LET t == SelectInSeq(p, LAMBDA x : x = EQ)
  IN  IF t = 0 THEN insert_param(c, p, <<49>>)
      ELSE insert_param(c, SubSeq(p, 1, t - 1), SubSeq(p, t + 1, Len(p)))

\* parse_qs (c, qs): nothing for a null or empty query string, otherwise
\* every field of qs split on '&', in order.
parse_qs(qs) ==
  IF qs = <<>> THEN <<>>
  ELSE FoldLeft(InsertField, <<>>, SplitOn(qs, AMP))

\* cgi_param_list (c, name).
cgi_param_list(c, name) ==
  [j \in 1..Len(SelectSeq(c, LAMBDA pr : pr[1] = name)) |->
     SelectSeq(c, LAMBDA pr : pr[1] = name)[j][2]]
=============================================================================
