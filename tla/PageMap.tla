------------------------------ MODULE PageMap ------------------------------
(***************************************************************************)
(* What the memory calls promise a process, page by page: a call gives the *)
(* pages of its range the attributes it asks for, and no other page.       *)
(***************************************************************************)
EXTENDS Integers

CONSTANTS MaxAddress, MaxSize, Unmapped

VARIABLE attr      \* [page -> [state, perms, ptr]]

Page == 0 .. MaxAddress - 1
Range(lo, n) == lo .. lo + n - 1

Init == attr = [a \in Page |-> Unmapped]

\* The pages that a step changes.
Changed == {a \in Page : attr'[a] # attr[a]}

\* The pages of the range become what the function new says.
Becomes(range, new) == \A a \in range : attr'[a] = new[a]

\* The range's pages keep their memory, and all get one state and one permission.
Retagged(lo, n, state, perms) ==
    [a \in Range(lo, n) |-> [attr[a] EXCEPT !.state = state, !.perms = perms]]

\* The page a is one of the read-write pages that continue a range's new memory to
\* either side.
Continues(a, lo, n) ==
    LET end == IF a < lo THEN lo ELSE lo + n - 1
    IN \A b \in (a .. lo - 1) \cup (lo + n .. a) :
          /\ attr[b].state = attr'[lo].state /\ attr[b].perms = {"R", "W"}
          /\ attr[b].ptr - b = attr'[end].ptr - end

\* The code takes them for one area with the new memory and protects all of it: they
\* may get its permission too.
Follow(pages, lo, n) ==
    \A a \in pages : /\ Continues(a, lo, n)
                     /\ attr'[a] = [attr[a] EXCEPT !.perms = attr'[lo].perms]

\* Unmapped pages get memory, in one state and with one permission.
Commit(lo, n) ==
    /\ attr[lo] = Unmapped /\ attr'[lo].state \in {"Private", "Continuous", "Shared"}
    /\ \A a \in Range(lo, n) : attr[a] = Unmapped /\ attr'[a] # Unmapped
    /\ Becomes(Range(lo, n), [a \in Range(lo, n) |->
           [state |-> attr'[lo].state, perms |-> attr'[lo].perms, ptr |-> attr'[a].ptr]])

Release(lo, n) ==
    /\ \A a \in Range(lo, n) : attr[a].state \in {"Private", "Continuous", "Shared"}
    /\ Becomes(Range(lo, n), [a \in Range(lo, n) |-> Unmapped])

\* The state of one page says what the call did to every page of the range.
Transition(lo, n) ==
    LET to == attr'[lo].state
    IN /\ \A a \in Range(lo, n) :
             \/ attr[a].state = to /\ to \in {"Private", "Continuous"}
             \/ attr[a].state = "Private" /\ to \in {"AliasCode", "Locked"}
             \/ attr[a].state \in {"AliasCode", "Locked"} /\ to = "Private"
       /\ Becomes(Range(lo, n), Retagged(lo, n, to, attr'[lo].perms))

Alias(lo, source, n) ==
    /\ \A i \in 0 .. n - 1 : attr[lo + i] = Unmapped /\ attr[source + i].state = "Private"
    /\ <<attr'[source].state, attr'[lo].state>> \in {<<"Aliased", "Alias">>, <<"Locked", "AliasCode">>}
    /\ Becomes(Range(lo, n) \cup Range(source, n),
               [a \in Range(lo, n) \cup Range(source, n) |->
                  IF a \in Range(source, n)
                  THEN Retagged(source, n, attr'[source].state, attr'[source].perms)[a]
                  ELSE [state |-> attr'[lo].state, perms |-> attr'[lo].perms,
                        ptr |-> attr[a - lo + source].ptr]])

Unalias(lo, source, n) ==
    /\ \A i \in 0 .. n - 1 :
          /\ <<attr[source + i].state, attr[lo + i].state>> \in
                 {<<"Aliased", "Alias">>, <<"Locked", "AliasCode">>}
          /\ attr[source + i].ptr = attr[lo + i].ptr
    /\ Becomes(Range(lo, n) \cup Range(source, n),
               [a \in Range(lo, n) \cup Range(source, n) |->
                  IF a \in Range(lo, n) THEN Unmapped
                  ELSE Retagged(source, n, "Private", attr'[source].perms)[a]])

\* A call begins with a page it changes, and changes no page outside of its range, but
\* for those that what it maps is joined to.
Next ==
    \E changed \in {Changed} :
       /\ DOMAIN attr' = Page
       /\ \E lo \in changed : \E n \in 1 .. MaxSize :
          /\ lo + n <= MaxAddress
          /\ \/ Follow(changed \ Range(lo, n), lo, n) /\ Commit(lo, n)
             \/ changed \subseteq Range(lo, n) /\ (Release(lo, n) \/ Transition(lo, n))
             \/ \E source \in changed :
                   /\ source + n <= MaxAddress /\ Range(lo, n) \cap Range(source, n) = {}
                   /\ LET others == changed \ (Range(lo, n) \cup Range(source, n))
                      IN \/ Follow(others, lo, n) /\ Alias(lo, source, n)
                         \/ others = {} /\ Unalias(lo, source, n)

Spec == Init /\ [][Next]_attr

=============================================================================
