----------------------------- MODULE ReturnUrls -----------------------------
(***************************************************************************)
(* acme.js and the tags and views that call it: how the pages find their   *)
(* way back to the listing that they were opened from.                     *)
(*                                                                         *)
(* A listing pushes its own URL on a stack before it opens the form of a   *)
(* row; the return button, and the page that a successful POST redirects   *)
(* to, pop it.  The stack is one string in the session storage of the tab, *)
(* its URLs joined by a separator.  It is written here as the sequence of  *)
(* the pieces of that string; a browser never leaves the characters of the *)
(* separator in a URL.  The server may answer any page with its panic      *)
(* page.  Back, the tabs and their session storage are the browser's.      *)
(***************************************************************************)
EXTENDS Naturals, Sequences

CONSTANTS
  Tabs,
  Listings,     \* pages with rows
  Forms,        \* pages with a return button
  Welcome,      \* the page at "/"
  Footer,       \* the pages that the footer leads to
  Panic, Referrer, Closed,
  RowOf,        \* RowOf[l]: the form that the rows of listing l open
  Buttons,      \* Buttons[f]: what the GET buttons of form f lead to
  Menu,         \* what the menu leads to
  returnStackSeparator, Null,
  MaxDepth,     \* bound: listings on the stack
  MaxBack       \* bound: pages that the browser remembers

Pages == Listings \union Forms \union {Welcome, Footer, Panic, Referrer}

ASSUME SeparatorAssumption == returnStackSeparator \notin Listings
ASSUME NullAssumption == Null \notin Seq(Listings \union {returnStackSeparator})
ASSUME PagesAssumption ==
  /\ Listings \intersect Forms = {}
  /\ {Welcome, Footer, Panic, Referrer, Closed} \intersect (Listings \union Forms) = {}
  /\ Closed \notin {Welcome, Footer, Panic, Referrer}
  /\ Referrer \notin {Welcome, Footer, Panic}
ASSUME LinksAssumption ==
  /\ RowOf \in [Listings -> Forms]
  /\ Buttons \in [Forms -> SUBSET (Listings \union Forms)]
  /\ Menu \subseteq Listings \union Forms \union {Welcome}
ASSUME BoundsAssumption == MaxDepth \in Nat /\ MaxBack \in Nat

VARIABLES
  storage,   \* the item "return-stack" of each tab's session storage
  at,        \* the page that each tab shows
  back,      \* the pages before it in the tab's history
  opener,    \* history: the listing last left since the menu was used
  strayed    \* history: Back, or clicks that overtook a page, since then

vars == <<storage, at, back, opener, strayed>>

Strings == Seq(Listings \union {returnStackSeparator})

TypeOK ==
  /\ storage \in [Tabs -> Strings \union {Null}]
  /\ at \in [Tabs -> Pages \union {Closed}]
  /\ back \in [Tabs -> Seq(Pages)]
  /\ opener \in [Tabs -> Listings \union {Welcome}]
  /\ strayed \in [Tabs -> BOOLEAN]

Init ==
  /\ storage = [t \in Tabs |-> Null]
  /\ \E first \in Tabs : at = [t \in Tabs |-> IF t = first THEN Welcome ELSE Closed]
  /\ back = [t \in Tabs |-> <<>>]
  /\ opener = [t \in Tabs |-> Welcome]
  /\ strayed = [t \in Tabs |-> FALSE]

-----------------------------------------------------------------------------
(***************************************************************************)
(* pushReturnUrl and popReturnUrl: the string after a push, and after and  *)
(* from a pop.                                                             *)
(***************************************************************************)
Pushed(s, url) == IF s = Null THEN <<url>> ELSE s \o <<returnStackSeparator, url>>

\* lastIndexOf, 0 for "not found" (-1 in the source).
LastIndexOf(s) ==
  IF \A i \in 1..Len(s) : s[i] # returnStackSeparator THEN 0
  ELSE CHOOSE i \in 1..Len(s) :
         /\ s[i] = returnStackSeparator
         /\ \A j \in i+1..Len(s) : s[j] # returnStackSeparator

\* A mutant of Popped: the separator is kept.
PoppedButSeparator(s) ==
  IF s = Null \/ LastIndexOf(s) = 0 THEN Null ELSE SubSeq(s, 1, LastIndexOf(s))

Popped(s) ==
  IF s = Null \/ LastIndexOf(s) = 0 THEN Null ELSE SubSeq(s, 1, LastIndexOf(s) - 1)

PopResult(s) ==
  IF s = Null THEN <<Welcome>> ELSE SubSeq(s, LastIndexOf(s) + 1, Len(s))

-----------------------------------------------------------------------------
\* A mutant of Store: the stack is in the local storage, which tabs share.
StoreForAll(t, s) == storage' = [u \in Tabs |-> s]
Store(t, s) == storage' = [storage EXCEPT ![t] = s]

\* The page behind a URL; only the pieces of a healthy stack are URLs.
Open(t, page) == at' = [at EXCEPT ![t] = page] \/ at' = [at EXCEPT ![t] = Panic]

OpenUrl(t, url) ==
  IF Len(url) = 1 THEN Open(t, url[1]) ELSE at' = [at EXCEPT ![t] = Panic]

Remembered(h) == IF Len(h) > MaxBack THEN Tail(h) ELSE h
Remember(t) == back' = [back EXCEPT ![t] = Remembered(Append(@, at[t]))]

Here(t) == at[t] # Closed
Stray(t) == strayed' = [strayed EXCEPT ![t] = TRUE]

\* How many listings there are on the stack, at most.
Depth(s) == IF s = Null THEN 0 ELSE Len(s)

-----------------------------------------------------------------------------
\* A mutant of MenuOption: the stack is left as it is.
MenuOptionKeeps(t) ==
  /\ Here(t)
  /\ \E page \in Menu : Open(t, page)
  /\ Remember(t)
  /\ opener' = [opener EXCEPT ![t] = Welcome]
  /\ strayed' = [strayed EXCEPT ![t] = FALSE]
  /\ UNCHANGED storage

(***************************************************************************)
(* clearReturnUrl(); redirect(...)                                         *)
(***************************************************************************)
MenuOption(t) ==
  /\ Here(t)
  /\ Store(t, Null)
  /\ \E page \in Menu : Open(t, page)
  /\ Remember(t)
  /\ opener' = [opener EXCEPT ![t] = Welcome]
  /\ strayed' = [strayed EXCEPT ![t] = FALSE]

(***************************************************************************)
(* The footer's own pages and its languages: redirect(...) only.           *)
(***************************************************************************)
FooterOption(t) ==
  /\ Here(t)
  /\ \E page \in {Footer, Welcome} : Open(t, page)
  /\ Remember(t)
  /\ UNCHANGED <<storage, opener, strayed>>

(***************************************************************************)
(* pushReturnUrl(<the listing's URL>); redirect("show?id=...").  A second  *)
(* click before the form has come does all of it again.                    *)
(***************************************************************************)
ClickRow(t) ==
  /\ at[t] \in Listings
  /\ Depth(storage[t]) < 2 * MaxDepth - 1
  /\ \/ Store(t, Pushed(storage[t], at[t])) /\ UNCHANGED strayed
     \/ /\ Depth(storage[t]) < 2 * MaxDepth - 3
        /\ Store(t, Pushed(Pushed(storage[t], at[t]), at[t]))
        /\ Stray(t)
  /\ Open(t, RowOf[at[t]])
  /\ Remember(t)
  /\ opener' = [opener EXCEPT ![t] = at[t]]

(***************************************************************************)
(* A GET button of a form: redirect(...).                                  *)
(***************************************************************************)
Button(t) ==
  /\ at[t] \in Forms
  /\ \E page \in Buttons[at[t]] : Open(t, page)
  /\ Remember(t)
  /\ UNCHANGED <<storage, opener, strayed>>

(***************************************************************************)
(* A POST is answered with the same form and its errors, or redirected to  *)
(* the referrer page.                                                      *)
(***************************************************************************)
Submit(t) ==
  /\ at[t] \in Forms
  /\ Open(t, at[t]) \/ Open(t, Referrer)
  /\ Remember(t)
  /\ UNCHANGED <<storage, opener, strayed>>

(***************************************************************************)
(* redirect(popReturnUrl()), once, or once more before the page has come.  *)
(***************************************************************************)
PopAndRedirect(t) ==
  /\ Store(t, Popped(storage[t]))
  /\ OpenUrl(t, PopResult(storage[t]))
  /\ UNCHANGED strayed

PopTwiceAndRedirect(t) ==
  /\ Store(t, Popped(Popped(storage[t])))
  /\ OpenUrl(t, PopResult(Popped(storage[t])))
  /\ Stray(t)

Return(t) ==
  /\ at[t] \in Forms
  /\ PopAndRedirect(t) \/ PopTwiceAndRedirect(t)
  /\ Remember(t)
  /\ UNCHANGED opener

(***************************************************************************)
(* The script of the referrer page, which the browser may keep in the      *)
(* tab's history or replace by the page that it redirects to.              *)
(***************************************************************************)
Refer(t) ==
  /\ at[t] = Referrer
  /\ PopAndRedirect(t)
  /\ Remember(t) \/ UNCHANGED back
  /\ UNCHANGED opener

Back(t) ==
  /\ Here(t) /\ back[t] # <<>>
  /\ at' = [at EXCEPT ![t] = back[t][Len(back[t])]]
  /\ back' = [back EXCEPT ![t] = SubSeq(@, 1, Len(@) - 1)]
  /\ Stray(t)
  /\ UNCHANGED <<storage, opener>>

(***************************************************************************)
(* A tab opened from another one starts with a copy of it.                 *)
(***************************************************************************)
Duplicate(t, u) ==
  /\ at[t] = Closed /\ Here(u)
  /\ Store(t, storage[u])
  /\ at' = [at EXCEPT ![t] = at[u]]
  /\ back' = [back EXCEPT ![t] = back[u]]
  /\ opener' = [opener EXCEPT ![t] = opener[u]]
  /\ strayed' = [strayed EXCEPT ![t] = strayed[u]]

Next ==
  \E t \in Tabs :
    \/ MenuOption(t) \/ FooterOption(t) \/ ClickRow(t) \/ Button(t) \/ Submit(t)
    \/ Return(t) \/ Refer(t) \/ Back(t)
    \/ \E u \in Tabs : Duplicate(t, u)

Spec == Init /\ [][Next]_vars

-----------------------------------------------------------------------------
(***************************************************************************)
(* The string is a stack of listings, joined by separators, and no more.   *)
(***************************************************************************)
Joined(s) ==
  /\ Len(s) % 2 = 1
  /\ \A i \in 1..Len(s) : s[i] = returnStackSeparator <=> i % 2 = 0

Healthy == \A t \in Tabs : storage[t] # Null => Joined(storage[t])

Top(s) == IF s = Null THEN Welcome ELSE s[Len(s)]

(***************************************************************************)
(* A form that returns, or is submitted, has the listing on top of its     *)
(* tab's stack whose row led to it, unless the user strayed.               *)
(***************************************************************************)
OpenerOnTop ==
  \A t \in Tabs : at[t] \in Forms \union {Referrer} /\ ~strayed[t] =>
    Top(storage[t]) = opener[t]

(***************************************************************************)
(* The inductive invariant of the return stack.                            *)
(***************************************************************************)
IInv == TypeOK /\ Healthy /\ OpenerOnTop

(***************************************************************************)
(* "The referrer view cares of returning to the appropriate listing or     *)
(* /master/welcome": without Back or hasty clicks since the menu was used, *)
(* leaving a form or the referrer page by its script or its return button  *)
(* shows the listing whose row was clicked last, or the welcome page.      *)
(***************************************************************************)
LeadsBack ==
  \A t \in Tabs :
    /\ at[t] \in Forms \union {Referrer} /\ ~strayed[t] /\ ~strayed'[t]
    /\ Return(t) \/ Refer(t)
    => at'[t] \in {opener[t], Panic}
ReturnsToOpener == [][LeadsBack]_vars

(***************************************************************************)
(* The listings named by the pieces of the string.                         *)
(***************************************************************************)
Split(s) == IF s = Null THEN <<>> ELSE [i \in 1..(Len(s) + 1) \div 2 |-> s[2 * i - 1]]

Stack == INSTANCE ReturnStack WITH stack <- [t \in Tabs |-> Split(storage[t])]

(***************************************************************************)
(* With Back, hasty clicks and copied tabs too, the string is a stack of   *)
(* listings that belongs to one tab.                                       *)
(***************************************************************************)
ImplementsStack == Stack!StackSpec

=============================================================================
