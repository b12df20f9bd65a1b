------------------------------ MODULE RouterApi ------------------------------
(* One session with the API of a router (mikrotik-api.ts): a login and three    *)
(* queries over one TCP connection.  A word travels as its length and its text, *)
(* a sentence ends with a length of zero.  The caller reads a sentence at a     *)
(* time and gives up a wait that takes too long; the router answers commands in *)
(* order, perhaps late, with rows and !done, or with !trap and then !done.      *)
EXTENDS Integers, Sequences

CONSTANTS MaxRows,         \* rows the router has for a query
          MaxSentences     \* sentences that print reads at most: 20000

ASSUME RouterApiAssumption == MaxRows \in Nat /\ MaxSentences \in Nat \ {0}

VARIABLES
    link,     \* the connection: "closed", "open", "shut" by one of its ends
    orders,   \* commands that the router has yet to answer, in order
    trapped,  \* it has answered the first of them with !trap, and !done follows
    wire,     \* what it has sent and the caller has not read
    caller,   \* the caller: its step, its query, and the sentence it is reading
    lists,    \* the rows of each query, each named after the query it answers
    rowsSent, \* history: how many rows the router had sent for each query
    upset     \* history: a query has trapped, timed out or reached MaxSentences

routerApiVars == <<link, orders, trapped, wire, caller, lists, rowsSent, upset>>

Queries == {"ppp", "arp", "lease"}
Order == <<"ppp", "arp", "lease">>
Replies == {"!re", "!done", "!trap", "!fatal"}

-----------------------------------------------------------------------------
(* encodeLen and readLen: the first byte says how many follow.                 *)
EncodeLen(n) ==
    CASE n < 128       -> <<n>>
      [] n >= 128 /\ n < 16384 -> <<128 + n \div 256, n % 256>>
      [] n >= 16384 /\ n < 2097152 -> <<192 + n \div 65536, (n \div 256) % 256, n % 256>>
      [] n >= 2097152 /\ n < 268435456 ->
             <<224 + n \div 16777216, (n \div 65536) % 256, (n \div 256) % 256, n % 256>>
      [] OTHER -> <<240, n \div 16777216, (n \div 65536) % 256, (n \div 256) % 256, n % 256>>

DecodeLen(b) ==
    CASE b[1] < 128 -> b[1]
      [] b[1] >= 128 /\ b[1] < 192 -> (b[1] % 128) * 256 + b[2]
      [] b[1] >= 192 /\ b[1] < 224 -> (b[1] % 32) * 65536 + b[2] * 256 + b[3]
      [] b[1] >= 224 /\ b[1] < 240 ->
             (b[1] % 16) * 16777216 + b[2] * 65536 + b[3] * 256 + b[4]
      [] OTHER -> b[2] * 16777216 + b[3] * 65536 + b[4] * 256 + b[5]

-----------------------------------------------------------------------------
Framed(tag) == <<"length", tag, "zero">>
FramedRow(q) == <<"length", "!re", "length", q, "zero">>

Unread == [words |-> <<>>, part |-> "length"]
Waiting(at, q) == [at |-> at, query |-> q, count |-> 0, words |-> <<>>, part |-> "length"]

RouterApiInit ==
    /\ link = "closed" /\ orders = <<>> /\ trapped = FALSE /\ wire = <<>>
    /\ caller = Waiting("start", 1)
    /\ lists = [q \in Queries |-> <<>>] /\ rowsSent = [q \in Queries |-> 0]
    /\ upset = FALSE

(* What a command written to the connection leads to: nothing, when it is shut. *)
Written(command) == orders' = IF link = "open" THEN Append(orders, command) ELSE orders

Connect ==
    /\ caller.at = "start"
    /\ \/ /\ link' = "open" /\ orders' = <<"login">>
          /\ caller' = Waiting("login", 1)
       \/ /\ caller' = [caller EXCEPT !.at = "over"]
          /\ UNCHANGED <<link, orders>>
    /\ UNCHANGED <<trapped, wire, lists, rowsSent, upset>>

-----------------------------------------------------------------------------
(* The router.                                                                 *)
Replied(sentence) == wire' = wire \o sentence

ReplyDone ==
    /\ link = "open" /\ orders # <<>>
    /\ Replied(Framed("!done"))
    /\ orders' = Tail(orders) /\ trapped' = FALSE
    /\ UNCHANGED <<link, caller, lists, rowsSent, upset>>

ReplyTrap ==
    /\ link = "open" /\ orders # <<>> /\ ~trapped
    /\ Replied(Framed("!trap"))
    /\ trapped' = TRUE
    /\ UNCHANGED <<link, orders, caller, lists, rowsSent, upset>>

(* A challenge asks for a hashed password, the answer to which is a new login. *)
ReplyChallenge ==
    /\ link = "open" /\ orders # <<>> /\ ~trapped
    /\ orders[1] = "login"
    /\ Replied(FramedRow("ret"))
    /\ orders' = Tail(orders)
    /\ UNCHANGED <<link, trapped, caller, lists, rowsSent, upset>>

ReplyRow ==
    /\ link = "open" /\ orders # <<>> /\ ~trapped
    /\ orders[1] \in Queries /\ rowsSent[orders[1]] < MaxRows
    /\ Replied(FramedRow(orders[1]))
    /\ rowsSent' = [rowsSent EXCEPT ![orders[1]] = @ + 1]
    /\ UNCHANGED <<link, orders, trapped, caller, lists, upset>>

(* The router ends the session, perhaps with a last word.                      *)
Hangup ==
    /\ link = "open"
    /\ wire' \in {wire, wire \o Framed("!fatal")}
    /\ link' = "shut" /\ orders' = <<>> /\ trapped' = FALSE
    /\ UNCHANGED <<caller, lists, rowsSent, upset>>

-----------------------------------------------------------------------------
(* The caller.                                                                 *)
Over == [caller EXCEPT !.at = "over", !.words = <<>>]

(* print returns its rows, or throws and counts as empty; the next one follows. *)
QueryEnds(rows, cut, fromPart) ==
    /\ lists' = [lists EXCEPT ![Order[caller.query]] = rows]
    /\ upset' = (upset \/ cut)
    /\ IF caller.query = Len(Order)
       THEN caller' = Over /\ UNCHANGED orders
       ELSE /\ caller' = [Waiting("print", caller.query + 1) EXCEPT !.part = fromPart]
            /\ Written(Order[caller.query + 1])

(* The answer to the second login is left unread.                              *)
SentenceOfLoginHasty(words) ==
    /\ caller.at = "login"
    /\ \/ /\ words # <<>> /\ words[1] = "!done"
          /\ caller' = Waiting("print", 1)
          /\ Written(Order[1])
       \/ /\ Len(words) = 2 /\ words[2] = "ret"
          /\ caller' = Waiting("print", 1)
          /\ orders' = IF link = "open" THEN orders \o <<"again", Order[1]>> ELSE orders
       \/ /\ words = <<>> \/ words[1] # "!done"
          /\ Len(words) < 2
          /\ caller' = Over /\ UNCHANGED orders
    /\ UNCHANGED <<lists, upset>>

SentenceOfLogin(words) ==
    /\ caller.at \in {"login", "again"}
    /\ \/ /\ words # <<>> /\ words[1] = "!done"
          /\ caller' = Waiting("print", 1)
          /\ Written(Order[1])
       \/ /\ caller.at = "login" /\ Len(words) = 2 /\ words[2] = "ret"
          /\ words[1] # "!done"
          /\ caller' = Waiting("again", 1)
          /\ Written("again")
       \/ /\ words = <<>> \/ words[1] # "!done"
          /\ caller.at = "again" \/ Len(words) < 2
          /\ caller' = Over /\ UNCHANGED orders
    /\ UNCHANGED <<lists, upset>>

(* An empty or unknown sentence is passed over, and counts.                    *)
SentenceOfPrint(words) ==
    LET tag == IF words = <<>> THEN "" ELSE words[1]
        rows == lists[Order[caller.query]]
        more == IF tag = "!re" THEN Append(rows, IF Len(words) = 2 THEN words[2] ELSE "?")
                ELSE rows
    IN
    /\ caller.at = "print"
    /\ \/ tag \in {"!trap", "!fatal"} /\ QueryEnds(<<>>, TRUE, "length")
       \/ tag = "!done" /\ QueryEnds(rows, FALSE, "length")
       \/ /\ tag \notin {"!trap", "!fatal", "!done"}
          /\ IF caller.count + 1 = MaxSentences
             THEN QueryEnds(more, TRUE, "length")
             ELSE /\ caller' = [caller EXCEPT !.count = @ + 1, !.words = <<>>, !.part = "length"]
                  /\ lists' = [lists EXCEPT ![Order[caller.query]] = more]
                  /\ UNCHANGED <<orders, upset>>

Sentence(words) == SentenceOfLogin(words) \/ SentenceOfPrint(words)

Reads == caller.at \in {"login", "again", "print"}

(* readExact: a length, or the text that goes with it, has arrived.            *)
ReadWord ==
    /\ Reads /\ wire # <<>> /\ caller.part # "lost"
    /\ wire' = Tail(wire)
    /\ CASE caller.part = "text" ->
              /\ caller' = [caller EXCEPT !.words = Append(@, wire[1]), !.part = "length"]
              /\ UNCHANGED <<orders, lists, upset>>
         [] caller.part = "length" /\ wire[1] = "length" ->
              /\ caller' = [caller EXCEPT !.part = "text"]
              /\ UNCHANGED <<orders, lists, upset>>
         [] caller.part = "length" /\ wire[1] = "zero" ->
              Sentence(caller.words)
         [] OTHER ->
              /\ caller' = [caller EXCEPT !.part = "lost"]
              /\ UNCHANGED <<orders, lists, upset>>
    /\ UNCHANGED <<link, trapped, rowsSent>>

(* Text taken for a length: what follows is cut into words in any way.         *)
ReadLost ==
    /\ Reads /\ wire # <<>> /\ caller.part = "lost"
    /\ wire' = Tail(wire)
    /\ \/ UNCHANGED <<orders, lists, upset, caller>>
       \/ \E words \in {<<>>, <<"junk">>, <<"!done">>} : Sentence(words)
    /\ UNCHANGED <<link, trapped, rowsSent>>

(* No time of its own: a connection that is shut says nothing more.            *)
WaitEndsIfOpen ==
    /\ Reads /\ link = "open"
    /\ \/ /\ caller.at = "print"
          /\ QueryEnds(<<>>, TRUE, IF caller.part = "length" THEN "length" ELSE "lost")
       \/ /\ caller.at # "print"
          /\ caller' = Over
          /\ UNCHANGED <<orders, lists, upset>>
    /\ UNCHANGED <<link, trapped, wire, rowsSent>>

(* The time for a sentence is over.  After a length, its text comes next.      *)
WaitEnds ==
    /\ Reads
    /\ \/ /\ caller.at = "print"
          /\ QueryEnds(<<>>, TRUE, IF caller.part = "length" THEN "length" ELSE "lost")
       \/ /\ caller.at # "print"
          /\ caller' = Over
          /\ UNCHANGED <<orders, lists, upset>>
    /\ UNCHANGED <<link, trapped, wire, rowsSent>>

(* Four seconds without traffic destroy the socket, which nobody is told of.   *)
SocketIdles ==
    /\ link \in {"open", "shut"} /\ Reads /\ (link = "open" \/ wire # <<>>)
    /\ link' = "shut" /\ wire' = <<>> /\ orders' = <<>> /\ trapped' = FALSE
    /\ UNCHANGED <<caller, lists, rowsSent, upset>>

RouterApiNext ==
    \/ Connect
    \/ ReplyDone \/ ReplyTrap \/ ReplyChallenge \/ ReplyRow \/ Hangup
    \/ ReadWord \/ ReadLost \/ WaitEnds \/ SocketIdles

-----------------------------------------------------------------------------
RouterApiTypeOK ==
    /\ link \in {"closed", "open", "shut"} /\ trapped \in BOOLEAN /\ upset \in BOOLEAN
    /\ orders \in Seq(Queries \cup {"login", "again"})
    /\ rowsSent \in [Queries -> 0..MaxRows]
    /\ caller.at \in {"start", "login", "again", "print", "over"}

(* Until a query traps, times out or has more rows than print reads, each list  *)
(* holds the rows of its own query, and a query that has ended all of them.     *)
ListsAreAnswers ==
    ~upset =>
        \A i \in 1..Len(Order) :
            LET q == Order[i] IN
            /\ \A j \in 1..Len(lists[q]) : lists[q][j] = q
            /\ caller.query > i \/ (caller.at = "over" /\ link = "open" /\ caller.query = 3)
                   => Len(lists[q]) = rowsSent[q]

(* The same, whatever the router answers: a trap refutes it.                   *)
RowsUnderTheirQuery == \A q \in Queries : \A j \in 1..Len(lists[q]) : lists[q][j] = q
=============================================================================
