------------------------------ MODULE MCSLabels ------------------------------
(***************************************************************************)
(* SELinux category labels and ranges of them, src/pkg/security/mcs.  A    *)
(* label is a prefix and k categories in descending order; labels of k     *)
(* categories are numbered in co-lexicographic order.  A prefix is one of  *)
(* "", "s0" and "s0:"; the text of labels and ranges is left out.         *)
(***************************************************************************)
EXTENDS Integers, Sequences, FiniteSetsExt, Functions

CONSTANT maxCategories  \* 1024

ASSUME CategoriesAssumption == maxCategories \in Nat \ {0}

\* uint64 and uint16 hold every value that occurs.
binomial(n, k) ==
  LET r[d \in 0 .. k] == IF d = 0 THEN 1 ELSE (r[d - 1] * (n - d + 1)) \div d
  IN  IF n < k THEN 0 ELSE IF n = k THEN 1 ELSE r[k]

\* Faulty: a category whose binomial equals what is left is passed over.
StrictlyLess(offset, n, k) ==
  LET step[i \in 0 .. k] ==
        IF i = 0 THEN [n |-> n, offset |-> offset, categories |-> <<>>]
        ELSE LET before == step[i - 1]
                 c == Max({0} \cup {m \in 0 .. before.n : binomial(m, k - i + 1) < before.offset})
             IN  [n |-> c, offset |-> before.offset - binomial(c, k - i + 1),
                  categories |-> Append(before.categories, c)]
  IN  step[k].categories

\* The co-lex unrank: from n down, the first category whose binomial is not above
\* what is left of the offset, k times.
categoriesForOffset(offset, n, k) ==
  LET step[i \in 0 .. k] ==
        IF i = 0 THEN [n |-> n, offset |-> offset, categories |-> <<>>]
        ELSE LET before == step[i - 1]
                 c == Max({m \in 0 .. before.n : binomial(m, k - i + 1) <= before.offset})
             IN  [n |-> c, offset |-> before.offset - binomial(c, k - i + 1),
                  categories |-> Append(before.categories, c)]
  IN  step[k].categories

\* The co-lex rank.
CategoriesOffset(categories) ==
  LET k == Len(categories)
      r[i \in 0 .. k] == IF i = 0 THEN 0 ELSE r[i - 1] + binomial(categories[i], k - i + 1)
  IN  r[k]

\* A prefix that does not end in a colon gets one.
NewLabel(prefix, offset, k) ==
  [Prefix |-> IF prefix = "s0" THEN "s0:" ELSE prefix,
   Categories |-> categoriesForOffset(offset, maxCategories, k)]

\* What NewRange and ParseRange accept: k of the categories below n.  A negative
\* k or n, which ParseRange lets pass and converts to an unsigned number above
\* all categories, is left out.
MCSRanges(prefixes) == [prefix : prefixes, n : 1 .. maxCategories, k : 1 .. 5]

MCSSize(r) == binomial(r.n, r.k)

LabelAt(r, offset) == NewLabel(r.prefix, offset, r.k)

ContainsLabel(r, label) ==
  /\ label.Prefix = r.prefix
  /\ Len(label.Categories) = r.k
  /\ \A i \in 1 .. r.k : label.Categories[i] < r.n

\* The label's number, if the range contains the label.
LabelOffset(r, label) ==
  IF ContainsLabel(r, label) THEN {CategoriesOffset(label.Categories)} ELSE {}
=============================================================================
