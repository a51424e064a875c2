------------------------------- MODULE Median -------------------------------
(* Medians (contrib/epee/include/misc_language.h) and sliding windows.      *)
EXTENDS Integers, Sequences, FiniteSets

(* Average of two numbers, rounded down. *)
get_mid(a, b) == (a + b) \div 2

(* std::sort: the n-th element of the result is the n-th smallest one of s. *)
sort(s) ==
  [n \in DOMAIN s |->
     CHOOSE x \in {s[i] : i \in DOMAIN s} :
       /\ Cardinality({i \in DOMAIN s : s[i] < x}) < n
       /\ n <= Cardinality({i \in DOMAIN s : s[i] <= x})]

(* The middle of the sorted values, or the average of the two in the middle. *)
median(s) ==
  LET v == sort(s)
      n == Len(s) \div 2
  IN IF s = << >> THEN 0
     ELSE IF Len(s) % 2 = 1 THEN v[n + 1]
     ELSE get_mid(v[n], v[n + 1])

(* The last n elements of s, or all of them. *)
youngest(s, n) == IF Len(s) <= n THEN s ELSE SubSeq(s, Len(s) - n + 1, Len(s))

(* A value enters a window of n at its young end. *)
push(s, v, n) == youngest(Append(s, v), n)
=============================================================================
