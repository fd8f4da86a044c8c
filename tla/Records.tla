------------------------------ MODULE Records --------------------------------
(***************************************************************************)
(* Text on its way from the input line to the log and to the modules, as   *)
(* sequences of bytes: the UTF-8 helpers of utf8.c, is_valid_username,     *)
(* the message composed from a line (input.c, exec.c), the record of       *)
(* message_save and its parser (message.c, message_log.c), and the JSON    *)
(* strings of json_text.c.                                                 *)
(*                                                                         *)
(* The bytes told apart are those the code tests, a two-byte character     *)
(* with two possible second bytes, and                                     *)
(*   "x"     any other printable byte      "sp"   a space                  *)
(*   "bar"   |          "quote"  "         "back" a backslash              *)
(*   "me"    the four bytes "/me "         "nl"   a newline                *)
(*   "msg"   the text of a command with a user name as its argument        *)
(*   "time"  a timestamp.                                                  *)
(***************************************************************************)
EXTENDS Integers, SequencesExt

CONSTANTS
    InputSize,  \* MAX_MESSAGE_LEN, sizeof(input): bytes with the final NUL
    NameSize,   \* MAX_USERNAME_LEN, likewise
    NameWidth,  \* the columns of a name, 20
    Anonymous   \* the name of a user who gives none, a sequence of bytes

ASSUME RecordAssumption ==
    /\ InputSize \in Nat \ {0}
    /\ NameSize \in Nat \ {0} /\ NameWidth \in Nat \ {0}

-----------------------------------------------------------------------------
(* Bytes.                                                                  *)

Second == {"c1", "c2"}
Digits == {"0", "1", "2"}
Printable ==
    {"x", "i", ":", "?", "q", "@", "sp", "msg", "me", "bar", "quote", "back", "[", "~",
     "A", "B"} \cup Digits

(* A character begins at every byte that is not a second one.              *)
Whole(s) ==
    \A i \in 1 .. Len(s) :
        /\ s[i] = "lead" => i < Len(s) /\ s[i + 1] \in Second
        /\ s[i] \in Second => i > 1 /\ s[i - 1] = "lead"

UpTo(s, n) == SubSeq(s, 1, IF Len(s) < n THEN Len(s) ELSE n)

(* Where the characters of s end.                                          *)
Ends(s) == {i \in 1 .. Len(s) : s[i] # "lead"}

(* utf8_truncate, for characters of one column.                            *)
Truncate(s, width) ==
    IF Cardinality(Ends(s)) <= width THEN s
    ELSE UpTo(s, CHOOSE i \in Ends(s) : Cardinality({e \in Ends(s) : e <= i}) = width)

(* utf8_remove_last_char.                                                  *)
RemoveLast(s) ==
    CASE s = <<>> -> s
      [] s # <<>> /\ Last(s) \in Second /\ Len(s) > 1 -> SubSeq(s, 1, Len(s) - 2)
      [] OTHER -> Front(s)

(* utf8_remove_last_word.                                                  *)
RemoveWord(s) ==
    LET before == {k \in 0 .. Len(s) :
                      /\ k = 0 \/ s[k] = "sp"
                      /\ \E i \in k + 1 .. Len(s) : s[i] # "sp"}
    IN  IF before = {} THEN <<>> ELSE SubSeq(s, 1, Max(before))

RefusedInName == {"bar", "quote", "back", "["}

(* is_valid_username.  A char above 127 is below 32 where char is signed,  *)
(* so that a build refuses all names with one, or none.                    *)
IsValidUsername(s, signed) ==
    /\ s # <<>> /\ s[1] # "sp"
    /\ ToSet(s) \cap RefusedInName = {}
    /\ signed => "lead" \notin ToSet(s)

-----------------------------------------------------------------------------
(* A message and its record.                                               *)

(* Enter, or exec post: /me puts the name into the text, which is cut to   *)
(* the size of the buffer wherever that falls.                             *)
Composed(name, input) ==
    IF Len(input) > 1 /\ input[1] = "me"
    THEN [user |-> <<"*">>, content |-> UpTo(name \o <<"sp">> \o Tail(input), InputSize - 1)]
    ELSE [user |-> name, content |-> input]

(* Keeping the separators of the text.                                     *)
SanitisedName(msg) ==
    [user    |-> [i \in DOMAIN msg.user |->
                     IF msg.user[i] \in {"bar", "cr", "nl"} THEN "x" ELSE msg.user[i]],
     content |-> msg.content]

(* message_save: no separator and no newline is left.                      *)
Sanitised(msg) ==
    [user    |-> [i \in DOMAIN msg.user |->
                     IF msg.user[i] \in {"bar", "cr", "nl"} THEN "x" ELSE msg.user[i]],
     content |-> [i \in DOMAIN msg.content |->
                     IF msg.content[i] \in {"bar", "cr", "nl"} THEN "sp" ELSE msg.content[i]]]

(* message_log_format_record.                                              *)
Format(msg) ==
    <<"time", "bar">> \o msg.user \o <<"bar">> \o msg.content \o <<"nl">>

NoRecord == [user |-> <<>>, content |-> <<>>]

(* message_log_parse_record, with a timestamp that is in range.            *)
Parse(line) ==
    LET bars    == {i \in 1 .. Len(line) : line[i] = "bar"}
        user    == SubSeq(line, Min(bars) + 1, Max(bars) - 1)
        content == SubSeq(line, Max(bars) + 1, Len(line) - 1)
    IN  IF /\ line # <<>> /\ Last(line) = "nl"
           /\ Cardinality(bars) = 2
           /\ user # <<>> /\ content # <<>> /\ line[1] # "bar"
           /\ Len(user) < NameSize /\ Len(content) < InputSize
           /\ Whole(user) /\ Whole(content)
        THEN [user |-> user, content |-> content]
        ELSE NoRecord

-----------------------------------------------------------------------------
(* JSON strings.                                                           *)

(* tnt_json_append_string: the opening quote, every byte, the closing one. *)
Escaped(b) == IF b \in {"quote", "back"} THEN <<"back", b>> ELSE <<b>>

JsonString(s) ==
    LET made[i \in 0 .. Len(s)] ==
            IF i = 0 THEN <<"quote">> ELSE made[i - 1] \o Escaped(s[i])
    IN  made[Len(s)] \o <<"quote">>

(* parse_json_string, without the escapes that JsonString does not make:   *)
(* what it has read so far, and the next byte.                             *)
JsonStep(st, b) ==
    CASE st.at = "start" -> [st EXCEPT !.at = IF b = "quote" THEN "text" ELSE "bad"]
      [] st.at = "text" -> CASE b = "quote" -> [st EXCEPT !.at = "done"]
                             [] b = "back"  -> [st EXCEPT !.at = "escape"]
                             [] OTHER       -> [st EXCEPT !.out = Append(@, b)]
      [] st.at = "escape" -> IF b \in {"quote", "back"}
                             THEN [at |-> "text", out |-> Append(st.out, b)]
                             ELSE [st EXCEPT !.at = "bad"]
      [] OTHER -> st

JsonParsed(s) ==
    LET read[i \in 0 .. Len(s)] ==
            IF i = 0 THEN [at |-> "start", out |-> <<>>] ELSE JsonStep(read[i - 1], s[i])
        end == read[Len(s)]
    IN  IF end.at = "done" THEN end.out ELSE <<>>

(* tnt_module_append_message_created refuses what is not UTF-8.            *)
HasEvent(msg) == Whole(msg.user) /\ Whole(msg.content)

(* The record and the event of a message give it back.                     *)
ReadsBack(msg) ==
    /\ Parse(Format(Sanitised(msg))) = Sanitised(msg)
    /\ HasEvent(msg)
    /\ JsonParsed(JsonString(msg.user)) = msg.user
    /\ JsonParsed(JsonString(msg.content)) = msg.content
=============================================================================
