---- MODULE ArticleRevisions ----
(* What a governed article promises to those who edit it. The article has one  *)
(* content. An edit request is opened on the content it wants to change; it    *)
(* lands only while the article still has that content, and it is published    *)
(* only if it landed. A request that was withdrawn never lands. An upload      *)
(* overwrites the article.                                                     *)
CONSTANTS Texts, Original, Requests, None

VARIABLES content, decision, base, landed

revisionVars == <<content, decision, base, landed>>

Init ==
    /\ content = None
    /\ decision = [r \in Requests |-> "none"]
    /\ base = [r \in Requests |-> None]
    /\ landed = {}

Overwrite ==
    /\ content' = Original
    /\ UNCHANGED <<decision, base, landed>>

\* A request may be withdrawn as soon as it is opened, when it cannot be announced.
Open(r) ==
    /\ content # None
    /\ decision[r] = "none"
    /\ \E d \in {"open", "withdrawn"} : decision' = [decision EXCEPT ![r] = d]
    /\ base' = [base EXCEPT ![r] = content]
    /\ UNCHANGED <<content, landed>>

Land(r) ==
    /\ decision[r] = "open"
    /\ content = base[r]
    /\ content' \in Texts
    /\ landed' = landed \cup {r}
    /\ UNCHANGED <<decision, base>>

Publish(r) ==
    /\ decision[r] = "open"
    /\ r \in landed
    /\ decision' = [decision EXCEPT ![r] = "published"]
    /\ UNCHANGED <<content, base, landed>>

Withdraw(r) ==
    /\ decision[r] = "open"
    /\ decision' = [decision EXCEPT ![r] = "withdrawn"]
    /\ UNCHANGED <<content, base, landed>>

Next ==
    \/ Overwrite
    \/ \E r \in Requests : Open(r) \/ Land(r) \/ Publish(r) \/ Withdraw(r)

Spec == Init /\ [][Next]_revisionVars
====
