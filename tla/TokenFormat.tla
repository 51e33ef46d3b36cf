------------------------------ MODULE TokenFormat ------------------------------
(***************************************************************************)
(* The way of a token's credentials and cursors through the formats of the *)
(* program: the message in which bondster-bco-rest sends the credentials   *)
(* (CreateTokenMessage), what bondster-bco-import makes of it              *)
(* (parseMessage), the file it keeps (Token.Serialize) and what is read    *)
(* from the file again (Token.Deserialize).                                *)
(*                                                                         *)
(* A name, that is a user name or a password, is a sequence of words and   *)
(* spaces. A word is a sequence of texts with a line break between them,   *)
(* and a space is the word without texts.                                  *)
(***************************************************************************)
EXTENDS Naturals, Sequences, FiniteSets, SequencesExt

CONSTANTS
  Names,       \* the names an HTTP client may send, none of them empty
  Prefix,      \* [the texts of words -> their first three letters, or Short];
               \* none of the texts reads like a cursor
  Short,       \* stands for the prefix of a text of less than seven letters
  Dates,       \* value dates
  Currencies,  \* of three letters
  MaxSaves     \* bound on the times the token is written

Space == <<>>
Epoch == [year |-> 2017, month |-> 1, day |-> 1, hour |-> 0]

ASSUME NamesAssumption == Names \subseteq Seq(Seq(DOMAIN Prefix)) \ {<<>>}
ASSUME DatesAssumption ==
  Dates \subseteq [year: Nat, month: 1..12, day: 1..31, hour: 0..23]
ASSUME CurrenciesAssumption == Short \notin Currencies
ASSUME SavesAssumption == MaxSaves \in Nat

VARIABLES
  sent,    \* the credentials as the HTTP client gave them
  held,    \* the token in memory, or why there is none
  file,    \* the lines of the file, none of them before it is written
  saved,   \* history: the token as it was when the file was written
  saves

formatVars == <<sent, held, file, saved, saves>>

NoCursor == [c \in {} |-> Epoch]
Failure(kind) == [kind |-> kind, user |-> Space, pass |-> Space, cursor |-> NoCursor]
Token(user, pass, cursor) == [kind |-> "token", user |-> user, pass |-> pass, cursor |-> cursor]

FormatInit ==
  /\ sent \in [user: Names, pass: Names]
  /\ held = Failure("sent") /\ saved = held
  /\ file = <<>> /\ saves = 0

-----------------------------------------------------------------------------
(* The message *)

\* CreateTokenMessage
Message(user, pass) == << <<"NT">>, Space>> \o user \o <<Space>> \o pass

\* parseMessage of an "NT": parts are the positions of its parts. Spaces are
\* skipped, but only one after the third part.
\* A message that ends in a space before that is read past its end.
Parsed(message) ==
  LET parts == {i \in DOMAIN message : message[i] # Space}
      pass == Max(parts)
      user == Max(parts \ {pass})
      rest == SubSeq(message, Len(message) - 1, Len(message))
  IN IF Cardinality(parts) = 3 /\ rest # <<Space, Space>>
       THEN Token(message[user], message[pass], NoCursor)
     ELSE IF Cardinality(parts) < 3 /\ rest[2] = Space THEN Failure("panic")
     ELSE Failure("error")

CreateToken ==
  /\ held.kind = "sent"
  /\ held' = Parsed(Message(sent.user, sent.pass))
  /\ UNCHANGED <<sent, file, saved, saves>>

\* The first time of a currency, or the value date of a statement.
SetLastSyncedTime(c, d) ==
  /\ held.kind = "token"
  /\ held' = Token(held.user, held.pass,
       [k \in DOMAIN held.cursor \cup {c} |-> IF k = c THEN d ELSE held.cursor[k]])
  /\ UNCHANGED <<sent, file, saved, saves>>

-----------------------------------------------------------------------------
(* The file *)

TextLines(word) == [i \in DOMAIN word |-> [text |-> word[i]]]

\* "02/01/2006"
DateText(d) == <<d.day, d.month, d.year>>

CursorLines(cursor) == {[key |-> k, date |-> DateText(cursor[k])] : k \in DOMAIN cursor}

\* Mutant of Serialize: the password comes first.
SerializePassword(t) ==
  {<<[text |-> "created"]>> \o TextLines(t.pass) \o TextLines(t.user) \o lines :
     lines \in SetToSeqs(CursorLines(t.cursor))}

\* What Token.Serialize may return: a map is iterated in any order.
Serialize(t) ==
  {<<[text |-> "created"]>> \o TextLines(t.user) \o TextLines(t.pass) \o lines :
     lines \in SetToSeqs(CursorLines(t.cursor))}

\* Mutant of ParsedDate: the month is read first.
ParsedMonthDay(text) ==
  IF text[1] \in 1..12
  THEN [year |-> text[3], month |-> text[1], day |-> text[2], hour |-> 0]
  ELSE Epoch

\* time.Parse, or the first of January 2017.
ParsedDate(text) ==
  IF text[2] \in 1..12
  THEN [year |-> text[3], month |-> text[2], day |-> text[1], hour |-> 0]
  ELSE Epoch

IsCursorLine(line) == "key" \in DOMAIN line

KeyOf(line) == IF IsCursorLine(line) THEN line.key ELSE Prefix[line.text]

DateOf(line) == IF IsCursorLine(line) THEN ParsedDate(line.date) ELSE Epoch

\* Token.Deserialize: the second line and the third one, and every later line that
\* is long enough as a cursor, of which the last one counts.
Deserialize(lines) ==
  LET keyed == {i \in 4..Len(lines) : KeyOf(lines[i]) # Short}
      last(k) == CHOOSE i \in keyed :
                   KeyOf(lines[i]) = k /\ \A j \in keyed : KeyOf(lines[j]) = k => j <= i
  IN Token(<<lines[2].text>>, <<lines[3].text>>,
           [k \in {KeyOf(lines[i]) : i \in keyed} |-> DateOf(lines[last(k)])])

\* persistence.CreateToken and UpdateToken
Save ==
  /\ held.kind = "token" /\ saves < MaxSaves
  /\ file' \in Serialize(held)
  /\ saved' = held
  /\ saves' = saves + 1
  /\ UNCHANGED <<sent, held>>

\* persistence.LoadToken
Load ==
  /\ file # <<>>
  /\ held' = Deserialize(file)
  /\ UNCHANGED <<sent, file, saved, saves>>

FormatNext ==
  \/ CreateToken \/ Save \/ Load
  \/ \E c \in Currencies, d \in Dates : SetLastSyncedTime(c, d)

FormatSpec == FormatInit /\ [][FormatNext]_formatVars

-----------------------------------------------------------------------------
(* What holds *)

Plain(name) == Len(name) = 1 /\ Len(name[1]) = 1

\* Credentials without spaces and line breaks are neither refused nor read past
\* their end, and are read from the file as the HTTP client gave them, however
\* often the token is written (messages.go 45-47 of the one service, common.go
\* 23-71 and token.go 85-135 of the other).
KeptAsSent ==
  Plain(sent.user) /\ Plain(sent.pass) =>
    /\ held.kind \in {"sent", "token"}
    /\ file # <<>> =>
         LET t == Deserialize(file) IN t.user = sent.user[1] /\ t.pass = sent.pass[1]

\* A cursor is read from the file as the midnight before it: no statement of a
\* later day is passed over, and none of an earlier day is asked for again
\* (token.go 95-100 and 123-132).
CursorKept ==
  file # <<>> =>
    \A k \in DOMAIN saved.cursor :
      Deserialize(file).cursor[k] = [saved.cursor[k] EXCEPT !.hour = 0]
=============================================================================
