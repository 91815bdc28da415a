----------------------------- MODULE SpamLedger -----------------------------
(***************************************************************************)
(* What the query service promises its clients and its repository, without *)
(* caches, queues, locks or contexts: a book of spam verdicts that only    *)
(* grows, and only by what a source has said of a number, and answers that *)
(* come from the book or from what was heard for this very question.       *)
(* QueryService implements it (see ServesTheLedger there).                 *)
(***************************************************************************)
CONSTANTS
    Clients,
    Phones,
    Sources,
    Excuses,     \* the ways a source, and with it a lookup, may fail
    FirstBook,   \* the verdicts of earlier times
    WritesBook,  \* new verdicts may be written down
    None

VARIABLES
    book,      \* the spam verdicts that are kept: pairs of number and source
    said,      \* the spam verdicts sources have ever given
    question,  \* the number each client asks about
    heard,     \* what each source has answered to its question
    answer     \* what it was told

ledgerVars == <<book, said, question, heard, answer>>

Init ==
    /\ book = FirstBook
    /\ said = {}
    /\ question = [c \in Clients |-> None]
    /\ heard = [c \in Clients |-> [s \in Sources |-> "none"]]
    /\ answer = [c \in Clients |-> None]

Waiting(c) == question[c] # None /\ answer[c] = None

(* The next question of a client whose last one is answered. *)
Ask(c, p) ==
    /\ ~Waiting(c)
    /\ question' = [question EXCEPT ![c] = p]
    /\ heard' = [heard EXCEPT ![c] = [s \in Sources |-> "none"]]
    /\ answer' = [answer EXCEPT ![c] = None]
    /\ UNCHANGED <<book, said>>

(* The question is passed on, once, to some of the sources. *)
Consult(c, asked) ==
    /\ Waiting(c)
    /\ \A s \in Sources : heard[c][s] = "none"
    /\ heard' = [heard EXCEPT ![c] =
                   [s \in Sources |-> IF s \in asked THEN "pending" ELSE "none"]]
    /\ UNCHANGED <<book, said, question, answer>>

(* A source that was asked answers, once. *)
Hear(c, s, outcome) ==
    /\ heard[c][s] = "pending"
    /\ heard' = [heard EXCEPT ![c][s] = outcome]
    /\ said' = IF outcome = "spam" THEN said \cup {<<question[c], s>>} ELSE said
    /\ UNCHANGED <<book, question, answer>>

(* Verdicts are written down at any time after they were given, or never. *)
WriteDown(rows) ==
    /\ WritesBook
    /\ book' = book \cup rows
    /\ UNCHANGED <<said, question, heard, answer>>

Said(c, outcome) == \E s \in Sources : heard[c][s] = outcome

(* An answer waits for everyone who was asked. *)
Tell(c, result) ==
    /\ Waiting(c)
    /\ ~Said(c, "pending")
    /\ answer' = [answer EXCEPT ![c] = result]
    /\ UNCHANGED <<book, said, question, heard>>

(* Spam: the source has just said so, or the book does. *)
TellSpam(c, s) ==
    /\ heard[c][s] = "spam" \/ <<question[c], s>> \in book
    /\ Tell(c, [verdict |-> "spam", source |-> s])

(* Clean: the source has just said so, and none has said spam. *)
TellClean(c, s) ==
    /\ heard[c][s] = "clean"
    /\ ~Said(c, "spam")
    /\ Tell(c, [verdict |-> "clean", source |-> s])

(* An error: some source failed and none has given a verdict. *)
TellError(c, e) ==
    /\ \E f \in Excuses : Said(c, f)
    /\ ~Said(c, "spam") /\ ~Said(c, "clean")
    /\ Tell(c, [error |-> e])

Next ==
    \/ \E c \in Clients, p \in Phones : Ask(c, p)
    \/ \E c \in Clients, asked \in SUBSET Sources : Consult(c, asked)
    \/ \E c \in Clients, s \in Sources, o \in {"spam", "clean"} \cup Excuses : Hear(c, s, o)
    \/ \E rows \in SUBSET said : WriteDown(rows)
    \/ \E c \in Clients, s \in Sources : TellSpam(c, s) \/ TellClean(c, s)
    \/ \E c \in Clients, e \in Excuses : TellError(c, e)

Spec == Init /\ [][Next]_ledgerVars
=============================================================================
