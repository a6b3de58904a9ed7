------------------------------ MODULE MCCodec ------------------------------
(***************************************************************************)
(* The encodings under every input up to a bound: an input of one kind is  *)
(* typed character by character, and each prefix is encoded and read back. *)
(***************************************************************************)
EXTENDS SecureHash, CommandLine

CONSTANTS
  MaxPassword,  \* bounds on the lengths of the inputs
  MaxReply,
  MaxArguments

VARIABLES
  kind,  \* what is typed
  data   \* as far as it is typed

vars == <<kind, data>>

\* A digit, and a byte of a character beyond ASCII.
PasswordBytes == {48, 229}
ReplyChars == {"(", ")", "obrace", "x", "blank"}
ArgumentChars == {"a", "blank", "q", "b"}

Init == kind \in {"password", "reply", "arguments"} /\ data = <<>>

Type(k, chars, bound) ==
  /\ kind = k
  /\ Len(data) < bound
  /\ \E c \in chars : data' = Append(data, c)
  /\ UNCHANGED kind

Next == \/ Type("password", PasswordBytes, MaxPassword)
        \/ Type("reply", ReplyChars, MaxReply)
        \/ Type("arguments", ArgumentChars, MaxArguments)

Spec == Init /\ [][Next]_vars

\* Tokens shorter than a key, as long as one, and longer than one.
Tokens == {<<55>>, [i \in 1..16 |-> 47 + i], [i \in 1..20 |-> 90 - i]}

\* The known login of src/test/main_test.go:9-18: alice, secret, 10.0.0.2, 153, under
\* the token 0123456789abcdef, and the digest, info field and checksum it expects.
KnownToken == <<48, 49, 50, 51, 52, 53, 54, 55, 56, 57, 97, 98, 99, 100, 101, 102>>
KnownParams ==
  BuildLoginParams(<<97, 108, 105, 99, 101>>, <<115, 101, 99, 114, 101, 116>>,
                   <<49, 48, 46, 48, 46, 48, 46, 50>>, <<49, 53, 51>>, KnownToken)
KnownDigest == <<
  102, 101, 97, 48, 51, 102, 56, 101, 97, 55, 51, 53, 53, 99, 56, 49, 49, 53, 51, 55,
  100, 52, 51, 52, 56, 50, 55, 49, 52, 102, 99, 97>>
KnownInfo == <<
  123, 83, 82, 66, 88, 49, 125, 103, 87, 49, 55, 119, 53, 70, 105, 110, 55, 117, 75, 54,
  112, 100, 83, 67, 74, 51, 117, 77, 102, 72, 109, 119, 43, 53, 72, 79, 116, 73, 76, 43,
  112, 122, 87, 83, 88, 112, 77, 89, 107, 118, 114, 70, 120, 51, 65, 81, 53, 108, 102,
  103, 74, 86, 116, 120, 67, 112, 50, 99, 85, 55, 43, 118, 48, 117, 43, 51, 84, 120, 51,
  78, 122, 105, 82, 56, 87, 52, 90, 114, 118, 43, 121, 65, 68, 102, 74, 106, 54, 112,
  78, 87, 56, 116, 72, 48, 55, 118, 79, 76, 47, 81, 118, 49, 51, 52, 117, 107, 72, 82,
  121, 47, 71, 109, 88, 100, 77, 100, 83, 54, 98, 109, 121, 52, 56, 87, 99>>
KnownSum == <<
  100, 53, 98, 97, 53, 56, 100, 97, 57, 102, 57, 98, 54, 102, 100, 98, 55, 100, 50, 52,
  100, 101, 99, 57, 99, 99, 98, 101, 51, 97, 50, 97, 101, 57, 100, 56, 54, 99, 55, 99>>

-----------------------------------------------------------------------------
\* A login has the info field that the repository's own test expects: the two
\* directions of the cipher could agree on a Mix that is not the portal's.
KnownAnswer == kind = "password" /\ data = <<>> => KnownParams.info = KnownInfo

\* Its checksum, over the pieces in the order of BuildLoginParams, is the one that
\* the test expects: another order, token or piece would give another one.
KnownChecksum ==
  kind = "password" /\ data = <<>> =>
    LET Piece(x) == IF x = KnownParams.password THEN KnownDigest ELSE x
        pieces == KnownParams.chksum[2]
    IN HexDigest(FlattenSeq([i \in DOMAIN pieces |-> Piece(pieces[i])])) = KnownSum

\* Whatever the text and the token, the portal reads out of the info field
\* the text that xEncode was given: its padding, its wrap-around and its count
\* of passes are those of the portal.
XEncodeInverts ==
  kind = "password" =>
    \A token \in Tokens : PortalDecode(XEncode(data, token), token) = {data}

\* UnwrapJSONP returns the JSON text of a reply, sent as it is or as the argument of
\* the callback, whatever parentheses the text itself has, whatever stands before
\* the call except a parenthesis or a brace in front, and whatever follows it except
\* a closing parenthesis.  A body that neither begins with a brace nor has an opening
\* parenthesis before a closing one is an error.
Lacks(text, c) == \A i \in DOMAIN text : text[i] # c
Bare(text) ==
  \E i \in DOMAIN text : text[i] = "obrace" /\ \A k \in 1..(i - 1) : text[k] = "blank"
RepliesAreRead ==
  kind = "reply" =>
    LET json == <<"obrace">> \o data \o <<"cbrace">>
    IN /\ UnwrapJSONP(<<"blank">> \o json \o <<"blank">>) = {json}
       /\ \A i, j \in 0..Len(data) :
            LET before == SubSeq(data, 1, i)
                argument == SubSeq(data, i + 1, j)
                after == SubSeq(data, j + 1, Len(data))
            IN i <= j /\ Lacks(before, "(") /\ ~Bare(before) /\ Lacks(after, ")") =>
                 UnwrapJSONP(before \o <<"(">> \o argument \o <<")">> \o after) = {argument}
       /\ ~Bare(data) /\ (\A i, j \in DOMAIN data : data[i] = "(" /\ data[j] = ")" => j < i)
            => UnwrapJSONP(data) = {}

\* The launched guard sees the arguments the startup task was given, wherever
\* quotes, backslashes and spaces stand in them, empty ones included.
ArgumentsSurvive ==
  kind = "arguments" =>
    \A i \in 0..Len(data) :
      LET args == <<SubSeq(data, 1, i), SubSeq(data, i + 1, Len(data))>>
      IN CommandLineToArgv(WindowsCommandLine(args)) = args
=============================================================================
