------------------------------ MODULE HardFork ------------------------------
(* The hard fork object (cryptonote_basic/hardfork.cpp).  Its state is a    *)
(* record: index is the current entry of the table of forks, versions the   *)
(* window of votes, counts the number of votes of each version in it.  A    *)
(* table is a sequence of [version, height, threshold]; blocks are records  *)
(* with a version v and a vote.                                             *)
EXTENDS Integers, Sequences, FiniteSets

CONSTANTS VOTE_WINDOW,   \* window_size
          Versions       \* block versions that occur

ASSUME VoteWindowAssumption == VOTE_WINDOW \in Nat \ {0}
ASSUME VersionsAssumption == Versions \subseteq Nat \ {0}

NoVotes == [v \in Versions |-> 0]

current_version(forks, hf) == forks[hf.index].version

get_ideal_version(forks, height) ==
  LET reached == {n \in 2..Len(forks) : height >= forks[n].height}
  IN IF reached = {} THEN forks[1].version
     ELSE forks[CHOOSE n \in reached : \A m \in reached : m <= n].version

get_effective_version(forks, vote) ==
  LET last == forks[Len(forks)].version IN IF vote > last THEN last ELSE vote

(* accumulated_votes when the loop is at fork n, which goes from the last    *)
(* fork down: the votes for fork n and the ones after it.                    *)
VotesFrom(forks, counts, n) ==
  LET accumulated[k \in 0..Len(forks)] ==
        IF k = 0 THEN 0
        ELSE accumulated[k - 1] + counts[forks[Len(forks) + 1 - k].version]
  IN accumulated[Len(forks) + 1 - n]

(* get_voted_fork_index: the latest fork that is due and has the votes. *)
get_voted_fork_index(forks, hf, height) ==
  LET voted == {n \in 1..Len(forks) :
                  /\ height >= forks[n].height
                  /\ VotesFrom(forks, hf.counts, n)
                       >= (VOTE_WINDOW * forks[n].threshold + 99) \div 100}
  IN IF voted = {} THEN hf.index ELSE CHOOSE n \in voted : \A m \in voted : m <= n

do_check(forks, index, b) == b.v = forks[index].version /\ b.vote >= forks[index].version

check_for_height(forks, hf, b, height) ==
  do_check(forks, get_voted_fork_index(forks, hf, height), b)

(* A new index is never lower than the old one. *)
advance(forks, hf, height) ==
  LET voted == get_voted_fork_index(forks, hf, height)
  IN IF voted > hf.index THEN [hf EXCEPT !.index = voted] ELSE hf

(* A vote enters the window and the oldest leaves it when it is full. *)
enter(hf, vote) ==
  LET full == Len(hf.versions) >= VOTE_WINDOW
      rest == IF full THEN [hf EXCEPT !.counts[Head(hf.versions)] = @ - 1,
                                      !.versions = Tail(@)]
              ELSE hf
  IN [rest EXCEPT !.versions = Append(@, vote), !.counts[vote] = @ + 1]

(* add: the block at a height, when the check passes. *)
add(forks, hf, b, height) ==
  IF do_check(forks, hf.index, b)
  THEN advance(forks, enter(hf, get_effective_version(forks, b.vote)), height + 1)
  ELSE hf

(* The votes of blocks from..to of a chain, counted from an empty window. *)
scan(forks, index, blocks, from, to) ==
  LET votes == [i \in 1..(to - from + 1) |->
                  get_effective_version(forks, blocks[from + i].vote)]
  IN [index |-> index, versions |-> votes,
      counts |-> [v \in Versions |-> Cardinality({i \in DOMAIN votes : votes[i] = v})]]

(* The entry of the table that has a version, or the last entry. *)
entry_of(forks, version) ==
  LET found == {n \in 1..Len(forks) : forks[n].version = version}
  IN IF found = {} THEN Len(forks) ELSE CHOOSE n \in found : \A m \in found : n <= m

(* init: rescans the window of the chain; hfv is the version table of the    *)
(* database.  Block h of the chain is blocks[h + 1].                          *)
init(forks, blocks, hfv) ==
  LET height == Len(blocks)
      from == IF height > VOTE_WINDOW THEN height - VOTE_WINDOW ELSE 0
  IN advance(forks, scan(forks, entry_of(forks, hfv[height - 1]), blocks, from, height - 1), height)

(* Mutant: the index is kept. *)
on_block_popped_keeps(forks, hf, new_height, hfv) ==
  LET n == Len(hf.versions)
      gone == hf.versions[n]
      counts == [hf.counts EXCEPT ![gone] = @ - 1]
  IN [hf EXCEPT !.versions = <<hfv[new_height]>> \o SubSeq(hf.versions, 1, n - 1),
                !.counts = [counts EXCEPT ![hfv[new_height]] = @ + 1]]

(* on_block_popped(1): the chain has new_height blocks left; what enters at  *)
(* the old end of the window is the version of the block that was popped.    *)
on_block_popped(forks, hf, new_height, hfv) ==
  LET n == Len(hf.versions)
      gone == hf.versions[n]
      counts == [hf.counts EXCEPT ![gone] = @ - 1]
      due == {k \in 2..Len(forks) : new_height >= forks[k].height}
  IN [index |-> IF due = {} THEN 1 ELSE CHOOSE k \in due : \A m \in due : m <= k,
      versions |-> <<hfv[new_height]>> \o SubSeq(hf.versions, 1, n - 1),
      counts |-> [counts EXCEPT ![hfv[new_height]] = @ + 1]]

(* reorganize_from_chain_height: block height - 1 is the last one kept; the  *)
(* votes up to it are scanned and the blocks above are added again.  The      *)
(* versions this writes to the database are there already.                    *)
reorganize_from_chain_height(forks, hf, blocks, height, hfv) ==
  LET kept == height - 1
      from == IF kept >= VOTE_WINDOW - 1 THEN kept - (VOTE_WINDOW - 1) ELSE 0
      start == IF kept = 0 THEN forks[1].version ELSE hfv[kept]
      lower == {n \in 1..hf.index : n = 1 \/ forks[n].version <= start}
      index == CHOOSE n \in lower : \A m \in lower : m <= n
      readd[n \in 0..(Len(blocks) - height)] ==
        IF n = 0 THEN advance(forks, scan(forks, index, blocks, from, kept), height)
        ELSE add(forks, readd[n - 1], blocks[height + n], kept + n)
  IN IF height = 0 \/ kept >= Len(blocks) THEN hf ELSE readd[Len(blocks) - height]
=============================================================================
