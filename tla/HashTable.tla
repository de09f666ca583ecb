---- MODULE HashTable ----
(***************************************************************************)
(* The hash tables of gnu-make (hash.c), which hold its files, variables,  *)
(* directories and strings: open addressing with double hashing, deleted   *)
(* markers, and a rehash when empty slots run short.  An item is the pair  *)
(* of a key, which ht_compare looks at, and a version that tells apart     *)
(* items of one key.                                                       *)
(***************************************************************************)
EXTENDS Integers, Sequences, FiniteSets, FiniteSetsExt, SequencesExt

CONSTANTS
    HtKeys, HtVersions,
    Hash1, Hash2,        \* ht_hash_1 and ht_hash_2
    HtAnnounced,         \* sizes hash_init is called with
    LoadShare            \* 16: one slot in so many stays empty

ASSUME HtAssumption ==
    /\ HtKeys \subseteq Nat \ {0} /\ HtVersions \subseteq Nat \ {0}
    /\ HtAnnounced \subseteq Nat \ {0} /\ LoadShare \in Nat \ {0, 1}
    /\ Hash1 \in [HtKeys -> Nat] /\ Hash2 \in [HtKeys -> Nat]

VARIABLES
    announced,           \* the size hash_init was called with: fixed
    ht_vec, ht_size, ht_capacity, ht_fill, ht_empty_slots,
    stored,              \* history: version last inserted of each key, 0 for none
    most                 \* history: most items there ever were

htVars == <<announced, ht_vec, ht_size, ht_capacity, ht_fill, ht_empty_slots, stored,
            most>>

HtEmpty == <<0, 0>>
hash_deleted_item == <<0, 1>>
HASH_VACANT(item) == item \in {HtEmpty, hash_deleted_item}

\* The power of two above n.
round_up_2(n) == Min({2^b : b \in 0..n} \cap (n + 1 .. 2^n))

NoItems(size) == [i \in 0 .. size - 1 |-> HtEmpty]

HtInit ==
    /\ announced \in HtAnnounced
    /\ ht_size = round_up_2(announced)
    /\ ht_empty_slots = ht_size
    /\ ht_vec = NoItems(ht_size)
    /\ ht_capacity = ht_size - ht_size \div LoadShare
    /\ ht_fill = 0
    /\ stored = [k \in HtKeys |-> 0]
    /\ most = 0

----------------------------------------------------------------------------
(***************************************************************************)
(* Searching.  Slot(vec, k, i) is the i-th slot that is looked at for k;   *)
(* the increment is odd, so that the first Cardinality(DOMAIN vec) of them *)
(* are all the slots.                                                      *)
(***************************************************************************)
Odd(n) == IF n % 2 = 1 THEN n ELSE n + 1

Slot(vec, k, i) == (Hash1[k] + i * Odd(Hash2[k])) % Cardinality(DOMAIN vec)

\* The turns at which the search for k returns; it never does if there is none.
Ends(vec, k) ==
    {i \in DOMAIN vec : vec[Slot(vec, k, i)] = HtEmpty \/ vec[Slot(vec, k, i)][1] = k}

hash_find_slot(vec, k) ==
    LET last == Min(Ends(vec, k))
        deleted == {i \in 0..last : vec[Slot(vec, k, i)] = hash_deleted_item} IN
    IF vec[Slot(vec, k, last)] = HtEmpty /\ deleted # {}
    THEN Slot(vec, k, Min(deleted))
    ELSE Slot(vec, k, last)

hash_find_item(k) ==
    LET item == ht_vec[hash_find_slot(ht_vec, k)] IN IF HASH_VACANT(item) THEN 0 ELSE item[2]

----------------------------------------------------------------------------
(***************************************************************************)
(* Changing                                                                *)
(***************************************************************************)
ItemsInOrder(vec) ==
    SelectSeq([i \in 1..Cardinality(DOMAIN vec) |-> vec[i - 1]], LAMBDA item : ~HASH_VACANT(item))

Rehashed(vec, size) ==
    FoldLeft(LAMBDA new, item : [new EXCEPT ![hash_find_slot(new, item[1])] = item],
             NoItems(size), ItemsInOrder(vec))

\* The table grows only if it is items that fill it, not markers.
hash_rehash(vec, fill) ==
    LET size == IF fill >= ht_capacity THEN 2 * ht_size ELSE ht_size IN
    /\ ht_size' = size
    /\ ht_capacity' = size - size \div LoadShare
    /\ ht_vec' = Rehashed(vec, size)
    /\ ht_empty_slots' = size - fill

TakesEmpty(old) == old = HtEmpty

RunsShort(empty) == empty < ht_size - ht_capacity

hash_insert(k, v) ==
    LET slot == hash_find_slot(ht_vec, k)
        old == ht_vec[slot]
        fill == IF HASH_VACANT(old) THEN ht_fill + 1 ELSE ht_fill
        empty == IF HASH_VACANT(old) /\ TakesEmpty(old) THEN ht_empty_slots - 1 ELSE ht_empty_slots
        vec == [ht_vec EXCEPT ![slot] = <<k, v>>] IN
    /\ ht_fill' = fill
    /\ IF RunsShort(empty)
       THEN hash_rehash(vec, fill)
       ELSE ht_vec' = vec /\ ht_empty_slots' = empty /\ UNCHANGED <<ht_size, ht_capacity>>
    /\ stored' = [stored EXCEPT ![k] = v]
    /\ most' = Max({most, fill})
    /\ UNCHANGED announced

\* Mutant: the slot is emptied instead of marked.
Removed_emptied == HtEmpty

Removed == hash_deleted_item

hash_delete(k) ==
    LET slot == hash_find_slot(ht_vec, k) IN
    /\ ~HASH_VACANT(ht_vec[slot])
    /\ ht_vec' = [ht_vec EXCEPT ![slot] = Removed]
    /\ ht_fill' = ht_fill - 1
    /\ stored' = [stored EXCEPT ![k] = 0]
    /\ UNCHANGED <<announced, ht_size, ht_capacity, ht_empty_slots, most>>

\* Also hash_free_items.
hash_delete_items ==
    /\ ht_fill > 0
    /\ ht_vec' = NoItems(ht_size)
    /\ ht_fill' = 0
    /\ ht_empty_slots' = ht_size
    /\ stored' = [k \in HtKeys |-> 0]
    /\ UNCHANGED <<announced, ht_size, ht_capacity, most>>

\* A table that is too small ever to be rehashed is made by func_filter_filterout
\* only, which inserts as many words as it announced and deletes none.
Small == ht_size < LoadShare

HtNext ==
    \/ \E k \in HtKeys, v \in HtVersions :
          /\ Small => stored[k] # 0 \/ ht_fill < announced
          /\ hash_insert(k, v)
    \/ ~Small /\ \E k \in HtKeys : hash_delete(k)
    \/ ~Small /\ hash_delete_items

----------------------------------------------------------------------------
(***************************************************************************)
(* Properties                                                              *)
(***************************************************************************)
\* Type invariant.  Inserting and deleting for ever does not make a table
\* grow: it has doubled only if half its size is too little for what it held.
HtTypeOK ==
    /\ ht_size \in {round_up_2(announced) * 2^n : n \in 0 .. Cardinality(HtKeys)}
    /\ \/ ht_size = round_up_2(announced)
       \/ ht_size \div 2 - (ht_size \div 2) \div LoadShare <= most
    /\ ht_vec \in [0 .. ht_size - 1 -> {HtEmpty, hash_deleted_item} \cup (HtKeys \X HtVersions)]
    /\ ht_capacity \in 1..ht_size
    /\ ht_fill \in 0..ht_size /\ ht_empty_slots \in 0..ht_size

\* hash_find_slot: "This guarantees that the increment can potentially hit
\* every slot in the table".  Every search ends: whatever was inserted and
\* deleted, an empty slot is left.
SearchEnds == \E i \in DOMAIN ht_vec : ht_vec[i] = HtEmpty

\* The table is the map from keys to the items last inserted: nothing is lost
\* behind a deleted marker or in a rehash, and nothing is there twice.
FindsLastInserted ==
    /\ \A k \in HtKeys : hash_find_item(k) = stored[k]
    /\ \A i, j \in DOMAIN ht_vec :
          ~HASH_VACANT(ht_vec[i]) /\ ht_vec[i][1] = ht_vec[j][1] => i = j

\* The two counters that decide when to rehash, and whether to grow, count
\* what is really there.
CountsAreExact ==
    /\ ht_fill = Cardinality({i \in DOMAIN ht_vec : ~HASH_VACANT(ht_vec[i])})
    /\ ht_empty_slots = Cardinality({i \in DOMAIN ht_vec : ht_vec[i] = HtEmpty})

\* The hash table is a map, its searches end and its counters are exact.
HashCorrect == HtTypeOK /\ SearchEnds /\ FindsLastInserted /\ CountsAreExact

-----------------------------------------------------------------------------
(***************************************************************************)
(* Where make keeps its strings (gnu-make strcache.c): each is stored once *)
(* and for ever, so that file names can be compared by address.  Strings   *)
(* share buffers; one that is hardly worth trying again moves to a list of *)
(* full buffers.  Only the length of a string matters; the table that      *)
(* finds it is HashTable's.  An address is a buffer and an offset.         *)
(***************************************************************************)

CONSTANTS
    ScStrings,
    ScLength,            \* their lengths
    BUFSIZE,             \* bytes in a buffer
    FullAfter,           \* 20: strings before the first buffer is called full
    USHRT_MAX,
    MaxHuge              \* bound: strings too long for the cache

ASSUME ScAssumption ==
    /\ ScLength \in [ScStrings -> Nat]
    /\ BUFSIZE \in Nat /\ FullAfter \in Nat \ {0} /\ MaxHuge \in Nat
    /\ USHRT_MAX \in Nat \ {0} /\ BUFSIZE <= USHRT_MAX

VARIABLES
    sc_buffer,           \* the buffers in the order they were made
    strcache, fullcache, \* lists of their numbers, the newest first
    hugestrings,
    strings,             \* the table: [strings in the cache -> address]
    total_strings, total_size,
    addresses              \* history: the addresses given for each string

scVars == <<sc_buffer, strcache, fullcache, hugestrings, strings, total_strings, total_size,
            addresses>>

Huge(s) == ScLength[s] > USHRT_MAX - 1
\* A byte nobody wrote, and the number of no buffer.
Nowhere == << >>
NO_BUFFER == 0

ScInit ==
    /\ sc_buffer = << >> /\ strcache = << >> /\ fullcache = << >> /\ hugestrings = << >>
    /\ strings = << >>
    /\ total_strings = 0 /\ total_size = 0
    /\ addresses = [s \in ScStrings |-> {}]

----------------------------------------------------------------------------
\* A byte is its string and its place in it; the last one ends the string.
new_cache(buflen) ==
    [end |-> 0, bytesfree |-> buflen, count |-> 0, buffer |-> [o \in 0 .. buflen - 1 |-> Nowhere]]

copy_string(sp, s) ==
    [end |-> sp.end + ScLength[s] + 1,
     bytesfree |-> sp.bytesfree - (ScLength[s] + 1),
     count |-> sp.count + 1,
     buffer |-> [o \in DOMAIN sp.buffer |-> IF o \in sp.end .. sp.end + ScLength[s]
                                            THEN <<s, o - sp.end>> ELSE sp.buffer[o]]]

CountString(sz) == total_strings' = total_strings + 1 /\ total_size' = total_size + sz

\* The string is copied to buffer b and entered in the table.
Stored(s, buffers, b) ==
    /\ sc_buffer' = [buffers EXCEPT ![b] = copy_string(buffers[b], s)]
    /\ strings' = strings @@ s :> <<b, buffers[b].end>>

\* A string that fits in no buffer gets one of its own.
AddAlone(s, sz) ==
    /\ sz > BUFSIZE
    /\ Stored(s, Append(sc_buffer, new_cache(sz)), Len(sc_buffer) + 1)
    /\ fullcache' = <<Len(sc_buffer) + 1>> \o fullcache
    /\ UNCHANGED strcache

Roomy(sz) == {i \in DOMAIN strcache : sc_buffer[strcache[i]].bytesfree > sz}

\* A buffer is taken for full if less is left in it than the average string needs.
IsFull(sp) ==
    total_strings' > FullAfter /\ sp.bytesfree < (total_size' \div total_strings') + 1

\* The copy goes to the buffer at place i of the list.
AddAt(s, buffers, list, i) ==
    /\ Stored(s, buffers, list[i])
    /\ IF IsFull(sc_buffer'[list[i]])
       THEN strcache' = RemoveAt(list, i) /\ fullcache' = <<list[i]>> \o fullcache
       ELSE strcache' = list /\ UNCHANGED fullcache

\* The first buffer with more room than is needed, or a new one.
AddShared(s, sz) ==
    /\ sz <= BUFSIZE
    /\ IF Roomy(sz) # {}
       THEN AddAt(s, sc_buffer, strcache, CHOOSE i \in Roomy(sz) : \A j \in Roomy(sz) : i <= j)
       ELSE AddAt(s, Append(sc_buffer, new_cache(BUFSIZE)), <<Len(sc_buffer) + 1>> \o strcache, 1)

add_string(s) ==
    /\ CountString(ScLength[s] + 1)
    /\ AddAlone(s, ScLength[s] + 1) \/ AddShared(s, ScLength[s] + 1)
    /\ UNCHANGED hugestrings

\* "We don't bother trying to match these."
add_hugestring(s) ==
    /\ Huge(s) /\ Len(hugestrings) < MaxHuge
    /\ hugestrings' = <<s>> \o hugestrings
    /\ addresses' = [addresses EXCEPT ![s] = @ \cup {<<NO_BUFFER, Len(hugestrings')>>}]
    /\ UNCHANGED <<sc_buffer, strcache, fullcache, strings, total_strings, total_size>>

\* add_hash for a string that is, or is not, in the table.
add_hash(s) ==
    /\ ~Huge(s)
    /\ IF s \in DOMAIN strings
       THEN UNCHANGED <<sc_buffer, strcache, fullcache, hugestrings, strings, total_strings, total_size>>
       ELSE add_string(s)
    /\ addresses' = [addresses EXCEPT ![s] = @ \cup {strings'[s]}]

strcache_add(s) == add_hugestring(s) \/ add_hash(s)

\* Whether make may keep the address instead of copying the string.
strcache_iscached(a) ==
    \/ a[1] \in ToSet(strcache \o fullcache) /\ a[2] < sc_buffer[a[1]].end
    \/ a[1] = NO_BUFFER /\ a[2] \in DOMAIN hugestrings

ScNext == \E s \in ScStrings : strcache_add(s)

ScSpec == ScInit /\ [][ScNext]_scVars

----------------------------------------------------------------------------
Used_(sp) == sp.end + sp.bytesfree
ScTypeOK ==
    /\ \A b \in DOMAIN sc_buffer :
          sc_buffer[b].bytesfree \in Nat /\ Used_(sc_buffer[b]) = Cardinality(DOMAIN sc_buffer[b].buffer)
    /\ DOMAIN strings \subseteq ScStrings /\ total_strings \in Nat /\ total_size \in Nat

\* A string is given one address however often it is added, and no other string
\* has it: addresses can be compared in place of names (strcache_add).
OneAddress ==
    /\ \A s \in ScStrings : Huge(s) \/ Cardinality(addresses[s]) <= 1
    /\ \A s, t \in ScStrings : s = t \/ addresses[s] \cap addresses[t] = {}

\* What stands at an address never changes, whatever is added behind or before
\* it, and the cache knows the address as its own (copy_string, strcache_iscached).
StringsIntact ==
    \A s \in ScStrings : \A a \in addresses[s] :
        /\ strcache_iscached(a)
        /\ ~Huge(s) => \A i \in 0 .. ScLength[s] : sc_buffer[a[1]].buffer[a[2] + i] = <<s, i>>

\* "Make sure we didn't lose any buffers": each is on one of the lists, once; and
\* strcache_print_stats divides by no zero.
NoBufferLost ==
    /\ Len(strcache \o fullcache) = Len(sc_buffer)
    /\ ToSet(strcache \o fullcache) = DOMAIN sc_buffer
    /\ strcache # << >> =>
          /\ sc_buffer[Head(strcache)].count > 0
          /\ Len(sc_buffer) > 1 => total_strings > sc_buffer[Head(strcache)].count

\* make's cache of strings hands out one lasting address per string.
StringsInterned == ScTypeOK /\ OneAddress /\ StringsIntact /\ NoBufferLost
====
