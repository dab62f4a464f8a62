---------------------------- MODULE ReturnStack ----------------------------
(***************************************************************************)
(* What the return buttons of the pages rest on: each tab of the browser   *)
(* keeps a stack of the listings that it left by a click on a row, and     *)
(* nothing that happens in one tab changes the stack of another.           *)
(***************************************************************************)
EXTENDS Naturals, Sequences

CONSTANTS Tabs, Listings, Closed, Welcome, Panic

VARIABLES
  stack,   \* the listings left, the last one on top
  at       \* the page that the tab shows

Elsewhere(t) == \A u \in Tabs \ {t} : at'[u] = at[u] /\ stack'[u] = stack[u]

\* Where a return leads; the server may refuse any page.
Top(s) == IF s = <<>> THEN Welcome ELSE s[Len(s)]
Below(s) == IF s = <<>> THEN <<>> ELSE SubSeq(s, 1, Len(s) - 1)
ReturnsTo(t, page) == at'[t] \in {page, Panic}

\* A click on a row, or two of them before the next page comes.
Leave(t) ==
  /\ at[t] \in Listings
  /\ \/ stack'[t] = Append(stack[t], at[t])
     \/ stack'[t] = Append(Append(stack[t], at[t]), at[t])
  /\ Elsewhere(t)

\* A return, or two of them.
Return(t) ==
  /\ \/ stack'[t] = Below(stack[t]) /\ ReturnsTo(t, Top(stack[t]))
     \/ /\ stack'[t] = Below(Below(stack[t]))
        /\ ReturnsTo(t, Top(Below(stack[t])))
  /\ Elsewhere(t)

Forget(t) == stack'[t] = <<>> /\ Elsewhere(t)

Wander(t) == stack'[t] = stack[t] /\ Elsewhere(t)

Copy(t, u) ==
  /\ at[t] = Closed
  /\ stack'[t] = stack[u] /\ at'[t] = at[u]
  /\ Elsewhere(t)

StackInit == stack = [t \in Tabs |-> <<>>]

StackNext ==
  \E t \in Tabs :
    \/ Leave(t) \/ Return(t) \/ Forget(t) \/ Wander(t)
    \/ \E u \in Tabs : Copy(t, u)

StackSpec == StackInit /\ [][StackNext]_<<stack, at>>

=============================================================================
