------------------------- MODULE RequestInvariants -------------------------
(***************************************************************************)
(* Why a client is told only of codes that its own insert won.             *)
(* ShortenRequestsProofs proves RequestsInv inductive; TLC checks it       *)
(* first.                                                                  *)
(***************************************************************************)
EXTENDS ShortenRequests, UrlInvariants

\* What a code has after entry i it still has after entry j, unless an entry in
\* between deletes it.
LastsInv ==
    \A i, j \in 0..Len(log), c \in Codes :
        (i <= j /\ Ideal(i).urls[c] # NoRow /\ NoDeleteBetween(c, i, j + 1)) =>
            Ideal(j).urls[c] = Ideal(i).urls[c]

\* The entry that the latest attempt of the request for u waits for is its own.
Inserted(u) ==
    /\ index[u] \in 1..Len(log)
    /\ log[index[u]] = [type |-> "CmdShortenURL", code |-> code[u], url |-> u]

\* In the order of the log that insert found the row free.
Won(u) == Inserted(u) /\ Ideal(index[u] - 1).urls[code[u]] = NoRow

\* An attempt proposes once, with the code its handler has.
Proposed(p) ==
    /\ p.try <= tries[p.url]
    /\ p.try = tries[p.url] =>
         /\ phase[p.url] # "counting"
         /\ phase[p.url] = "waiting" => code[p.url] = p.code

ProposalInv == \A p \in inflight : Proposed(p)

\* How far the latest attempt of the request for u is.
Attempted(u) ==
    /\ phase[u] = "counting" => tries[u] >= 1 /\ index[u] = 0
    /\ phase[u] = "waiting" => code[u] \in Codes /\ (index[u] # 0 => Inserted(u))
    /\ phase[u] = "created" => code[u] \in Codes /\ Won(u)

AttemptInv == \A u \in LongURLs : Attempted(u)

\* A client is told what its latest attempt got.
AnswerInv ==
    \A u \in LongURLs : answer[u] \in Codes => phase[u] = "created" /\ answer[u] = code[u]

\* The part about the requests, and the whole with that about the store.
HandlerInv ==
    RequestsTypeOK /\ Len(log) <= MaxLog /\ ProposalInv /\ AttemptInv /\ AnswerInv

RequestsInv == ConvergeInv /\ RowsInv /\ LastsInv /\ HandlerInv
============================================================================
