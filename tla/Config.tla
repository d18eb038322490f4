------------------------------- MODULE Config -------------------------------
(***************************************************************************)
(* read_config_info of server/config_info.c: how the values of config.ini  *)
(* are found, as functions of the file.                                    *)
(*                                                                         *)
(* Data.  A file is a sequence of tokens: key words, values, "=", ";",     *)
(* "sp" and "nl".  The searches are those of strstr and strchr, which know *)
(* nothing of lines, comments and sections.  Values are shorter than       *)
(* CONFIG_KEY_WORD_BUF_SIZE, and the file than INI_FILE_BUF_SIZE; what     *)
(* becomes of a value later, a number or a string, is left out.            *)
(***************************************************************************)
EXTENDS Integers, Sequences

CONSTANTS
    config_file_key_word,   \* the key words, in the order of the array
    Written                 \* what is written for each, a sequence of tokens

KeyWords == {config_file_key_word[i] : i \in DOMAIN config_file_key_word}
Indices == DOMAIN config_file_key_word
Key(i) == config_file_key_word[i]

Tokens == {"=", ";", "sp", "nl"} \cup KeyWords
            \cup UNION {{Written[k][j] : j \in DOMAIN Written[k]} : k \in KeyWords}

\* Key words are not punctuation.  A value holds nothing that ends it and begins with no space;
\* what it says is free, and may well have a key word in it.
ASSUME ConfigAssumption ==
    /\ config_file_key_word \in Seq(KeyWords) /\ KeyWords \cap {"=", ";", "sp", "nl"} = {}
    /\ \A k \in KeyWords :
         /\ Written[k] \in Seq(Tokens)
         /\ \A j \in DOMAIN Written[k] : Written[k][j] \notin {";", "nl"}
         /\ Written[k] # <<>> => Written[k][1] # "sp"

-----------------------------------------------------------------------------
(* The file: config.ini, and the ways in which it may be laid out. *)

\* The keys that are there in their order, those whose line ends with ";", those a comment at
\* the top mentions, whether "=" has spaces, and whether the last line is ended.
Layouts ==
    [order : {o \in UNION {[1..k -> KeyWords] : k \in 0..Len(config_file_key_word)} :
                \A a, b \in DOMAIN o : a # b => o[a] # o[b]},
     closed : SUBSET KeyWords, mentioned : {<<>>} \cup {<<k>> : k \in KeyWords},
     spaced : BOOLEAN, ended : BOOLEAN]

Space(l) == IF l.spaced THEN <<"sp">> ELSE <<>>
Line(l, k) == <<"nl", k>> \o Space(l) \o <<"=">> \o Space(l) \o Written[k]
                \o IF k \in l.closed THEN <<";">> ELSE <<>>
Render(l) ==
    LET Lines[k \in 0..Len(l.order)] == IF k = 0 THEN <<";">> \o l.mentioned
                                                 ELSE Lines[k - 1] \o Line(l, l.order[k])
    IN  Lines[Len(l.order)] \o IF l.ended THEN <<"nl">> ELSE <<>>

-----------------------------------------------------------------------------
(* read_config_info.  A position is 0 where a search returns NULL. *)

\* The first position from p on whose token is in S.
Search(f, p, S) ==
    LET found == {i \in p..Len(f) : f[i] \in S}
    IN  IF p = 0 \/ found = {} THEN 0 ELSE CHOOSE i \in found : \A j \in found : i <= j

\* strstr, from the beginning for every key.
KeyOf(f, i) == Search(f, 1, {Key(i)})

\* strchr finds the next "=", on whatever line; tabs and spaces are passed over.
EqualOf(f, i) == Search(f, KeyOf(f, i), {"="})
ValueOf(f, i) ==
    LET p == EqualOf(f, i)
    IN  CHOOSE q \in (p + 1)..(Len(f) + 1) :
          /\ q = Len(f) + 1 \/ f[q] # "sp"
          /\ \A j \in (p + 1)..(q - 1) : f[j] = "sp"

\* Faulty variant: only the end of the line ends a value.
parse_config_key_word_line(f, p) ==
    LET e == Search(f, p, {"nl"})
    IN  IF e = 0 THEN <<FALSE, <<>>>> ELSE <<TRUE, SubSeq(f, p, e - 1)>>

\* Up to ";" or the end of the line; without either there is no value.
parse_config_key_word(f, p) ==
    LET e == Search(f, p, {";", "nl"})
    IN  IF e = 0 THEN <<FALSE, <<>>>> ELSE <<TRUE, SubSeq(f, p, e - 1)>>

\* The first key that is not there, or has no "=" after it, ends the loop.
Missing(f, i) == KeyOf(f, i) = 0 \/ EqualOf(f, i) = 0
Reached(f, i) == \A j \in 1..i : ~Missing(f, j)

\* config_info is zero where nothing was read.
config_info(f) == [i \in Indices |->
    IF Reached(f, i) THEN parse_config_key_word(f, ValueOf(f, i))[2] ELSE <<>>]

\* A file that is empty, or not there, is an error.
read_file_to_buff(f) == IF f = <<>> THEN -1 ELSE 0

\* The result: 0 only if every key was there.
read_config_info(f) == IF read_file_to_buff(f) = 0 /\ Reached(f, Len(config_file_key_word)) THEN 0 ELSE -1
=============================================================================
