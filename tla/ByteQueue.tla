----------------------------- MODULE ByteQueue ------------------------------
(***************************************************************************)
(* What a Buffer promises: the bytes put in, at the back or in front, come *)
(* out once and in order; a swap exchanges two contents and changes none.  *)
(***************************************************************************)
EXTENDS Naturals, Sequences

CONSTANTS Names, Data
VARIABLE content

QInit == content = [x \in Names |-> << >>]

Put(x) == \E d \in Data : content' = [content EXCEPT ![x] = @ \o d]
PutFront(x) == \E d \in Data : content' = [content EXCEPT ![x] = d \o @]
Take(x) == \E n \in 1..Len(content[x]) :
              content' = [content EXCEPT ![x] = SubSeq(@, n + 1, Len(@))]
Swap(x, y) == content' = [content EXCEPT ![x] = content[y], ![y] = content[x]]

QNext == \E x, y \in Names : Put(x) \/ PutFront(x) \/ Take(x) \/ Swap(x, y)

QSpec == QInit /\ [][QNext]_content
=============================================================================
