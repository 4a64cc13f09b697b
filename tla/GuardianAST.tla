---------------------------- MODULE GuardianAST ----------------------------
(***************************************************************************)
(* The tank gauge: protocols/guardian_ast/guardian_ast_server.py.  Each    *)
(* connection copies the names of the tanks when it is made, and renames   *)
(* its copies.  A command is what has been received when a newline or "00" *)
(* is in it: of lines that arrive together the first is executed, with the *)
(* others as part of its text, and a line that arrives in pieces may be    *)
(* executed early; what follows of it is then taken for a command.  When   *)
(* the client closes in the middle of a line, recv returns nothing for     *)
(* ever, the loop that waits for the newline never gives way, and no other *)
(* greenlet runs.  A client ends a line before it begins the next; lines   *)
(* have a whole code, and ^A only before it.                               *)
(***************************************************************************)
EXTENDS Integers, Sequences, FiniteSets

CONSTANTS Clients, Tanks, MaxLines

\* A line: a report (I20100 to I20500), S60200 for all the tanks or S6020n
\* for tank n with a name, or a code that does not exist.  Is there "00" in
\* its first piece?  In the code of a report and in S60200 there is.
Lines == [code : {"report", "rename"}, tank : {0}, zeros : {TRUE}]
         \cup [code : {"rename"}, tank : Tanks, zeros : BOOLEAN]
         \cup [code : {"unknown"}, tank : {0}, zeros : BOOLEAN]

\* A line or its first piece, with ^A, or the rest of one or a line without.
Pieces == [line : Lines, begins : {TRUE}, ends : BOOLEAN]
          \cup [line : {l \in Lines : l.code = "unknown"}, begins : {FALSE}, ends : {TRUE}]

Labels == {"template", "given", "part"}

VARIABLES inbox,    \* pieces that have arrived
          open,     \* has the client begun a line that it has not ended?
          gone,     \* has the client closed the connection?
          handler,  \* "recv", "more", "spin" or "ended"
          response, \* what has been received of a command
          product,  \* the names of a connection: the template's, given by its
                    \* client, or a part of what it gave
          report,   \* the names in its last report
          lines

vars == <<inbox, open, gone, handler, response, product, report, lines>>
sending == <<open, gone, lines>>

Init ==
    /\ inbox = [c \in Clients |-> <<>>]
    /\ open = [c \in Clients |-> FALSE] /\ gone = [c \in Clients |-> FALSE]
    /\ handler = [c \in Clients |-> "recv"] /\ response = [c \in Clients |-> <<>>]
    /\ product = [c \in Clients |-> [t \in Tanks |-> "template"]]
    /\ report = product
    /\ lines = 0

TypeOK ==
    /\ lines \in 0..MaxLines
    /\ \A c \in Clients :
         /\ inbox[c] \in Seq(Pieces) /\ response[c] \in Seq(Pieces)
         /\ open[c] \in BOOLEAN /\ gone[c] \in BOOLEAN
         /\ handler[c] \in {"recv", "more", "spin", "ended"}
         /\ response[c] # <<>> => handler[c] \in {"more", "spin"}
         /\ product[c] \in [Tanks -> Labels] /\ report[c] \in [Tanks -> Labels]

----------------------------------------------------------------------------
\* The other greenlets run only when no loop keeps the thread.
Runs == \A c \in Clients : handler[c] # "spin"

\* A newline or "00" in what has been received.
Terminated(text) == \E i \in DOMAIN text : text[i].ends \/ text[i].line.zeros

\* What follows the code is the name, all that has arrived of it; S60200 is
\* about every tank.
Renamed(names, text) ==
    [t \in Tanks |->
       IF text[1].line.tank \notin {0, t} THEN names[t]
       ELSE IF \E i \in DOMAIN text : text[i].ends THEN "given" ELSE "part"]

\* Mutant of Execute: what does not begin with ^A is passed over.
ExecuteSkips(c, text) ==
    /\ response' = [response EXCEPT ![c] = <<>>]
    /\ handler' = [handler EXCEPT ![c] = "recv"]
    /\ product' = IF text[1].line.code = "rename"
                  THEN [product EXCEPT ![c] = Renamed(@, text)] ELSE product
    /\ report' = IF text[1].line.code = "report"
                 THEN [report EXCEPT ![c] = product[c]] ELSE report

\* Mutant of Execute: the text of a command is not dropped when it is done.
ExecuteKeeps(c, text) ==
    /\ response' = [response EXCEPT ![c] = text]
    /\ handler' = [handler EXCEPT ![c] = IF text[1].begins THEN "recv" ELSE "ended"]
    /\ UNCHANGED <<product, report>>

\* One pass of the loop, once the text of a command is complete: it ends for
\* what does not begin with ^A, and may end when an answer cannot be sent.
Execute(c, text) ==
    /\ response' = [response EXCEPT ![c] = <<>>]
    /\ \/ /\ ~text[1].begins
          /\ handler' = [handler EXCEPT ![c] = "ended"]
          /\ UNCHANGED <<product, report>>
       \/ /\ text[1].begins /\ gone[c] /\ text[1].line.code # "rename"
          /\ handler' = [handler EXCEPT ![c] = "ended"]
          /\ UNCHANGED <<product, report>>
       \/ /\ text[1].begins
          /\ handler' = [handler EXCEPT ![c] = "recv"]
          /\ product' = IF text[1].line.code = "rename"
                        THEN [product EXCEPT ![c] = Renamed(@, text)] ELSE product
          /\ report' = IF text[1].line.code = "report"
                       THEN [report EXCEPT ![c] = product[c]] ELSE report

\* recv: what has arrived, nothing when the client has closed.  The loop that
\* waits for the end of a line does not look whether it was nothing.
Receive(c) ==
    /\ Runs /\ handler[c] \in {"recv", "more"}
    /\ LET text == response[c] \o inbox[c] IN
       /\ inbox' = [inbox EXCEPT ![c] = <<>>]
       /\ \/ /\ inbox[c] = <<>> /\ gone[c]
             /\ handler' = [handler EXCEPT ![c] = IF @ = "recv" THEN "ended" ELSE "spin"]
             /\ UNCHANGED <<response, product, report>>
          \/ /\ inbox[c] # <<>> /\ Terminated(text)
             /\ Execute(c, text)
          \/ /\ inbox[c] # <<>> /\ ~Terminated(text)
             /\ handler' = [handler EXCEPT ![c] = "more"]
             /\ response' = [response EXCEPT ![c] = text]
             /\ UNCHANGED <<product, report>>
    /\ UNCHANGED sending

----------------------------------------------------------------------------
\* A client sends a line or its first piece, and then the rest of it.
Send(c, piece) ==
    /\ lines < MaxLines /\ ~open[c] /\ ~gone[c] /\ handler[c] # "ended"
    /\ inbox' = [inbox EXCEPT ![c] = Append(@, piece)]
    /\ open' = [open EXCEPT ![c] = ~piece.ends]
    /\ lines' = lines + 1
    /\ UNCHANGED <<gone, handler, response, product, report>>

SendRest(c, piece) ==
    /\ open[c] /\ ~gone[c] /\ ~piece.begins
    /\ inbox' = [inbox EXCEPT ![c] = Append(@, piece)]
    /\ open' = [open EXCEPT ![c] = FALSE]
    /\ UNCHANGED <<gone, handler, response, product, report, lines>>

Close(c) ==
    /\ ~gone[c] /\ gone' = [gone EXCEPT ![c] = TRUE]
    /\ UNCHANGED <<inbox, open, handler, response, product, report, lines>>

Next ==
    \E c \in Clients :
      \/ Receive(c) \/ Close(c)
      \/ \E piece \in Pieces : Send(c, piece) \/ SendRest(c, piece)

Spec == Init /\ [][Next]_vars

----------------------------------------------------------------------------
\* A name that TCP cuts is stored in part, since S60200 has the "00" that ends
\* a command; but no report shows it.  Before the client can ask for one the
\* rest of its line is taken for a command and ends the connection
\* (guardian_ast_server.py:173-179, 249-282).
NamesAreWhole == \A c \in Clients, t \in Tanks : report[c][t] # "part"
=============================================================================
