-------------------------- MODULE MCAccessRegistry --------------------------
(***************************************************************************)
(* A small instance of AccessRegistry: the days around the end of a        *)
(* February, and the arguments an administrator may give.                  *)
(***************************************************************************)
EXTENDS AccessRegistry

Date(d, m, y) == [day |-> d, month |-> m, year |-> y]

\* The leap day of 2000 and the first of March.
LeapDay == Date(29, 2, 2000)

\* Users are interchangeable.
UserSymmetry == Permutations(User)

Colon == 10

\* The days around the end of the month, written well; days that do not exist; and
\* texts that are no dates: 29/02/200/ (read as the year 1999), 01/03/1::0 (read as
\* 2100), 1/03/2000, 28-02-2000.
DateArgs ==
  {Written(d) : d \in {Date(28, 2, 2000), Date(29, 2, 2000), Date(1, 3, 2000),
                       Date(30, 2, 2000), Date(29, 2, 1900), Date(31, 4, 2000)}}
  \cup {<<2, 9, Slash, 0, 2, Slash, 2, 0, 0, Slash>>,
        <<0, 1, Slash, 0, 3, Slash, 1, Colon, Colon, 0>>,
        <<1, Slash, 0, 3, Slash, 2, 0, 0, 0>>,
        <<2, 8, -3, 0, 2, -3, 2, 0, 0, 0>>}
=============================================================================
