----------------------------- MODULE Catalogue -----------------------------
(***************************************************************************)
(* The books table and those who write titles to it: the API and the admin *)
(* site, one row at a time, and the command populate_real_books, which     *)
(* replaces the titles of each genre with ones fetched from Open Library.  *)
(*                                                                         *)
(* A row is its title.  ISBNs, descriptions and links are left out; a      *)
(* random ISBN that is taken is one of the errors an update may meet.  The *)
(* genre of a book is fixed; a book that moves to another genre looks like *)
(* a deleted one to the command.  --dry-run changes nothing.               *)
(***************************************************************************)
EXTENDS Integers, FiniteSetsExt

CONSTANTS
    Titles,
    Genres,
    GenreOf,    \* the genre of each book, or None
    PageSize,   \* works asked for at a time at most: 250
    Slack,      \* works asked for beyond those needed: 50
    MaxOffset,  \* where the search for works ends: 5000
    Attempts,   \* of a request to Open Library: 3
    None,
    MaxBooks,   \* bound: rows of the table, past ones included
    MaxEdits    \* bound: changes of rows

Ids == 1 .. MaxBooks

ASSUME CatalogueAssumption ==
    /\ MaxBooks \in Nat /\ MaxEdits \in Nat /\ PageSize \in Nat \ {0} /\ Slack \in Nat
    /\ MaxOffset \in Nat \ {0}
    /\ Attempts \in Nat \ {0}
    /\ IsFiniteSet(Titles) /\ None \notin Titles
    /\ GenreOf \in [Ids -> Genres \cup {None}]

VARIABLES
    rows,   \* table books: id -> title
    nextId, \* the id sequence of that table
    edits,  \* how often a row was changed or deleted
    feed    \* what populate_real_books is doing

table == <<rows, nextId, edits>>

-----------------------------------------------------------------------------
(***************************************************************************)
(* BookViewSet and the admin site.                                         *)
(***************************************************************************)
CreateBook(t) == /\ nextId <= MaxBooks
                 /\ rows' = [i \in DOMAIN rows \cup {nextId} |->
                               IF i = nextId THEN t ELSE rows[i]]
                 /\ nextId' = nextId + 1
                 /\ UNCHANGED <<edits, feed>>

EditBook(i, t) == /\ i \in DOMAIN rows
                  /\ edits < MaxEdits /\ edits' = edits + 1
                  /\ rows' = [rows EXCEPT ![i] = t]
                  /\ UNCHANGED <<nextId, feed>>

DeleteBook(i) == /\ i \in DOMAIN rows
                 /\ edits < MaxEdits /\ edits' = edits + 1
                 /\ rows' = [k \in DOMAIN rows \ {i} |-> rows[k]]
                 /\ UNCHANGED <<nextId, feed>>

-----------------------------------------------------------------------------
(***************************************************************************)
(* populate_real_books: genre by genre, and no other work meanwhile.       *)
(***************************************************************************)
NoFeed == [pc |-> "idle"]

WithGenres(todo) == IF todo = {} THEN NoFeed ELSE [pc |-> "genre", todo |-> todo]

Shelf(g) == {i \in DOMAIN rows : GenreOf[i] = g}

\* One genre, or all of them.
StartFeed == /\ feed.pc = "idle"
             /\ \E todo \in {{g} : g \in Genres} \cup {Genres} :
                    feed' = WithGenres(todo)
             /\ UNCHANGED table

\* The books are counted, to know how many works are needed, long before they are listed.
NextGenre(g) ==
    /\ feed.pc = "genre" /\ g \in feed.todo
    /\ feed' = IF Shelf(g) = {}
               THEN WithGenres(feed.todo \ {g})
               ELSE [pc |-> "fetch", todo |-> feed.todo \ {g}, genre |-> g,
                     needed |-> Cardinality(Shelf(g)),
                     found |-> {}, offset |-> 0, attempt |-> 1]
    /\ UNCHANGED table

Batch == Min({PageSize, feed.needed - Cardinality(feed.found) + Slack})

\* No more pages.  What follows, the descriptions, changes nothing that others see.
LeaveWith(found) == [pc |-> "list", todo |-> feed.todo, genre |-> feed.genre, found |-> found]

\* ol_get() tries again, and gives the page and the rest of the genre up in the end.
PageError ==
    /\ feed.pc = "fetch"
    /\ \/ /\ feed.attempt < Attempts
          /\ feed' = [feed EXCEPT !.attempt = @ + 1]
       \/ /\ feed.attempt = Attempts
          /\ feed' = LeaveWith(feed.found)
    /\ UNCHANGED table

\* The titles taken from a page are those not seen before, until there are enough.
TakenFrom(works) ==
    LET new == works \ (feed.found \cup {None})
    IN  kSubset(Min({Cardinality(new), feed.needed - Cardinality(feed.found)}), new)

\* After a page comes the next one, unless it has no works, there are enough, or the
\* last offset has been reached.
GoOn(works, found, offset) ==
    feed' = IF works = {} \/ Cardinality(found) = feed.needed \/ offset >= MaxOffset
            THEN LeaveWith(found)
            ELSE [feed EXCEPT !.found = found, !.offset = offset, !.attempt = 1]

\* A work without a title is None.
Pages == {works \in SUBSET (Titles \cup {None}) : Cardinality(works) <= Batch}

\* MUTANT: the next page starts where the new titles of this one end.
PageOfNew ==
    /\ feed.pc = "fetch"
    /\ \E works \in Pages : \E taken \in TakenFrom(works) :
          GoOn(works, feed.found \cup taken, feed.offset + Cardinality(taken))
    /\ UNCHANGED table

\* MUTANT: a page is taken to its end.
PageUncut ==
    /\ feed.pc = "fetch"
    /\ \E works \in Pages : GoOn(works, feed.found \cup (works \ {None}), feed.offset + Batch)
    /\ UNCHANGED table

\* A page of works; one without a new title does not end the search.
Page ==
    /\ feed.pc = "fetch"
    /\ \E works \in Pages : \E taken \in TakenFrom(works) :
          GoOn(works, feed.found \cup taken, feed.offset + Batch)
    /\ UNCHANGED table

\* When there is a work at all, the books are listed; some may be gone, or new.
ListBooks ==
    /\ feed.pc = "list"
    /\ feed' = IF feed.found = {} \/ Shelf(feed.genre) = {}
               THEN WithGenres(feed.todo)
               ELSE [pc |-> "update", todo |-> feed.todo,
                     ids |-> Shelf(feed.genre), found |-> feed.found]
    /\ UNCHANGED table

\* The next book gets the next title, with an UPDATE that commits at once, or keeps
\* its own when the ISBN is taken twice or the database fails; a deleted book stays
\* deleted.  The genre is done when either the books or the titles are used up.
UpdateBook(i, t) ==
    /\ feed.pc = "update" /\ i = Min(feed.ids) /\ t \in feed.found
    /\ \/ /\ i \in DOMAIN rows /\ edits < MaxEdits
          /\ rows' = [rows EXCEPT ![i] = t] /\ edits' = edits + 1
       \/ UNCHANGED <<rows, edits>>
    /\ feed' = IF feed.ids = {i} \/ feed.found = {t}
               THEN WithGenres(feed.todo)
               ELSE [feed EXCEPT !.ids = @ \ {i}, !.found = @ \ {t}]
    /\ UNCHANGED nextId

\* The command dies, of an error it does not catch or otherwise.
KillFeed == /\ feed.pc # "idle" /\ feed' = NoFeed
            /\ UNCHANGED table

-----------------------------------------------------------------------------
CatalogueInit == /\ rows = [i \in {} |-> None] /\ nextId = 1 /\ edits = 0
                 /\ feed = NoFeed

FeedStep == \/ \E g \in Genres : NextGenre(g)
            \/ PageError \/ Page \/ ListBooks
            \/ \E i \in Ids, t \in Titles : UpdateBook(i, t)

CatalogueNext == \/ \E t \in Titles : CreateBook(t)
                 \/ \E i \in Ids, t \in Titles : EditBook(i, t)
                 \/ \E i \in Ids : DeleteBook(i)
                 \/ StartFeed \/ FeedStep \/ KillFeed

FeedOK == \/ feed = NoFeed
          \/ feed \in [pc : {"genre"}, todo : SUBSET Genres]
          \/ /\ feed \in [pc : {"fetch"}, todo : SUBSET Genres, genre : Genres,
                          needed : Ids, found : SUBSET Titles, offset : 0 .. MaxOffset,
                          attempt : 1 .. Attempts]
             /\ Cardinality(feed.found) < feed.needed
          \/ feed \in [pc : {"list"}, todo : SUBSET Genres, genre : Genres, found : SUBSET Titles]
          \/ feed \in [pc : {"update"}, todo : SUBSET Genres, ids : SUBSET Ids,
                       found : SUBSET Titles]

\* The rows have ids that were given out, and populate_real_books never looks for more
\* works than a genre needs nor further than it may (populate_real_books.py:85-147).
CatalogueOK == /\ nextId \in 1 .. MaxBooks + 1
               /\ DOMAIN rows \subseteq 1 .. nextId - 1 /\ rows \in [DOMAIN rows -> Titles]
               /\ FeedOK

=============================================================================
