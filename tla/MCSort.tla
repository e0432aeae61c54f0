------------------------------- MODULE MCSort -------------------------------
(* Values for the model checking of SortFallback. *)
EXTENDS SortFallback

\* Messages whose UIDs are no sequence numbers, and one that is another's.
ThreeMessages == <<2, 3, 7>>

By(key, reverse) == [key |-> key, reverse |-> reverse]

\* One criterion, two, one that tells nothing apart before one that does, none.
MCCriteria == {<<By("size", FALSE)>>, <<By("size", TRUE), By("date", TRUE)>>,
               <<By("from", FALSE), By("size", FALSE)>>, <<>>}

\* Any sizes, equal ones too, dates that break some ties but not all, and senders
\* that nothing can be sorted by.
MCAttributes == {[m \in {2, 3, 7} |-> [key \in {"size", "date", "from"} |->
                    CASE key = "date" -> IF m = 3 THEN 1 ELSE 2
                      [] key = "from" -> IF m = 7 THEN 1 ELSE 2
                      [] key = "size" -> size[m]]] :
                   size \in [{2, 3, 7} -> {1, 2}]}
=============================================================================
