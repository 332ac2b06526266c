------------------------------ MODULE ArrayUtil ------------------------------
(***************************************************************************)
(* The array helpers of util/util.h on a heap of blocks: an array whose    *)
(* pointer and length, and a grid whose pointer and two sides, are         *)
(* variables of the caller that the helpers take and give back.  Any new   *)
(* may throw.                                                              *)
(***************************************************************************)
EXTENDS Integers

CONSTANTS Blocks,         \* the addresses new may return
          MaxLength,      \* the longest block asked for
          Values,         \* what the caller writes into cells
          Indeterminate,  \* what a new cell holds
          Null

ASSUME ArrayAssumption ==
  /\ MaxLength \in Nat
  /\ Indeterminate \notin Values
  /\ Null \notin Blocks

VARIABLES heap,   \* the live blocks, each with its cells
          list,   \* arr and size
          grid,   \* arr, w and h
          thrown  \* the helper whose new threw bad_alloc, or "none"

arrayVars == <<heap, list, grid, thrown>>

Lengths == 0 .. MaxLength

ArrayInit ==
  /\ heap = [b \in {} |-> <<>>]
  /\ list = [arr |-> Null, size |-> 0]
  /\ grid = [arr |-> Null, w |-> 0, h |-> 0]
  /\ thrown = "none"

-----------------------------------------------------------------------------
(* new and delete. *)

delete(h, arr) == [b \in DOMAIN h \ {arr} |-> h[b]]

new(h, b, size) == [a \in DOMAIN h \union {b} |->
                      IF a = b THEN [i \in 0 .. size - 1 |-> Indeterminate] ELSE h[a]]

(* `(arr!=NULL && new_size==size) || (arr==NULL && new_size==0)` *)
Fits(arr, size, new_size) == IF arr = Null THEN new_size = 0 ELSE new_size = size

-----------------------------------------------------------------------------
(* Allocation.  A call that fits what the caller has changes nothing.      *)

(* Mutated: the old block is forgotten. *)
alloc_arrayLeaking(new_size) ==
  /\ thrown = "none" /\ ~Fits(list.arr, list.size, new_size)
  /\ \E b \in Blocks \ DOMAIN heap :
       heap' = new(heap, b, new_size) /\ list' = [arr |-> b, size |-> new_size]
  /\ UNCHANGED <<grid, thrown>>

(* The result of new is assigned by the caller, so when new throws his     *)
(* pointer still names the deleted block.                                  *)
alloc_array(new_size) ==
  /\ thrown = "none" /\ ~Fits(list.arr, list.size, new_size)
  /\ LET freed == delete(heap, list.arr) IN
       \/ /\ \E b \in Blocks \ DOMAIN freed :
               heap' = new(freed, b, new_size) /\ list' = [arr |-> b, size |-> new_size]
          /\ UNCHANGED thrown
       \/ heap' = freed /\ thrown' = "alloc_array" /\ UNCHANGED list
  /\ UNCHANGED grid

(* Mutated: as alloc_array does it, deleting first. *)
resize_arrayDeletingFirst(new_size, cur_used) ==
  cur_used <= list.size /\ cur_used <= new_size /\ alloc_array(new_size)

(* The caller says how many cells he uses; they must fit both blocks.      *)
resize_array(new_size, cur_used) ==
  /\ thrown = "none" /\ ~Fits(list.arr, list.size, new_size)
  /\ cur_used <= list.size /\ cur_used <= new_size
  /\ \/ /\ \E b \in Blocks \ DOMAIN heap :
             LET copied == [new(heap, b, new_size) EXCEPT
                              ![b] = [i \in DOMAIN @ |-> IF i < cur_used THEN heap[list.arr][i] ELSE @[i]]]
             IN heap' = delete(copied, list.arr) /\ list' = [arr |-> b, size |-> new_size]
        /\ UNCHANGED thrown
     \/ thrown' = "resize_array" /\ UNCHANGED <<heap, list>>
  /\ UNCHANGED grid

free_array ==
  /\ thrown = "none"
  /\ heap' = delete(heap, list.arr)
  /\ list' = [arr |-> Null, size |-> 0]
  /\ UNCHANGED <<grid, thrown>>

(* Kept, with its old sides, if the area is the same.                      *)
alloc_array2(new_w, new_h) ==
  /\ thrown = "none" /\ ~Fits(grid.arr, grid.w * grid.h, new_w * new_h)
  /\ LET freed == delete(heap, grid.arr) IN
       \/ /\ \E b \in Blocks \ DOMAIN freed :
               heap' = new(freed, b, new_w * new_h) /\ grid' = [arr |-> b, w |-> new_w, h |-> new_h]
          /\ UNCHANGED thrown
       \/ heap' = freed /\ thrown' = "alloc_array2" /\ UNCHANGED grid
  /\ UNCHANGED list

(* A caller that catches bad_alloc can keep the array after resize_array   *)
(* and must give up the pointer after the others.                          *)
Catch ==
  /\ thrown # "none" /\ thrown' = "none"
  /\ list' = IF thrown = "alloc_array" THEN [arr |-> Null, size |-> 0] ELSE list
  /\ grid' = IF thrown = "alloc_array2" THEN [arr |-> Null, w |-> 0, h |-> 0] ELSE grid
  /\ UNCHANGED heap

-----------------------------------------------------------------------------
(* Writing, within the block. *)

(* mset(arr,val,num) is set_range(arr,0,num,val). *)
set_range(start, num, val) ==
  /\ thrown = "none" /\ list.arr # Null /\ start + num <= list.size
  /\ heap' = [heap EXCEPT ![list.arr] =
                [i \in DOMAIN @ |-> IF start <= i /\ i < start + num THEN val ELSE @[i]]]
  /\ UNCHANGED <<list, grid, thrown>>

(* Mutated: through a copy of the source. *)
CopiedAtOnce(cells, dest, src, num) ==
  [i \in DOMAIN cells |-> IF dest <= i /\ i < dest + num THEN cells[src + i - dest] ELSE cells[i]]

(* `for(i=0; i<num; i++) dest[i] = src[i]` within one block. *)
Copied(cells, dest, src, num) ==
  LET after[i \in 0 .. num] ==
        IF i = 0 THEN cells ELSE [after[i - 1] EXCEPT ![dest + i - 1] = after[i - 1][src + i - 1]]
  IN  after[num]

(* mcopy(arr + dest, arr + src, num) *)
mcopy(dest, src, num) ==
  /\ thrown = "none" /\ list.arr # Null
  /\ dest + num <= list.size /\ src + num <= list.size
  /\ heap' = [heap EXCEPT ![list.arr] = Copied(@, dest, src, num)]
  /\ UNCHANGED <<list, grid, thrown>>

ArrayNext ==
  \/ \E n \in Lengths : alloc_array(n)
  \/ \E n, used \in Lengths : resize_array(n, used)
  \/ free_array
  \/ \E w, h \in Lengths : w * h <= MaxLength /\ alloc_array2(w, h)
  \/ Catch
  \/ \E start, num \in Lengths, val \in Values : set_range(start, num, val)
  \/ \E dest, src, num \in Lengths : mcopy(dest, src, num)

ArraySpec == ArrayInit /\ [][ArrayNext]_arrayVars

-----------------------------------------------------------------------------
(* Properties. *)

Names(arr, size) ==
  IF arr = Null THEN size = 0 ELSE arr \in DOMAIN heap /\ DOMAIN heap[arr] = 0 .. size - 1

(* The caller's length and sides are those of the block his pointer names, *)
(* so that every index below size, and y * w + x below the sides, is a     *)
(* cell; also after resize_array failed, and after a grid was asked for in *)
(* another shape of the same area.  Only alloc_array and alloc_array2      *)
(* leave a pointer to nothing, when their new throws.                      *)
SizeIsTheTruth ==
  /\ thrown # "alloc_array" => Names(list.arr, list.size)
  /\ thrown # "alloc_array2" => Names(grid.arr, grid.w * grid.h)

(* No block is shared, and none outlives the pointer to it.                *)
OneOwner ==
  /\ list.arr # Null => list.arr # grid.arr \/ thrown # "none"
  /\ DOMAIN heap \subseteq {list.arr, grid.arr}

(* Every block is named by one pointer of the caller, with its true size.  *)
BlocksAccounted == SizeIsTheTruth /\ OneOwner

(* Resizing keeps the cells in use, and failing to resize keeps all.       *)
ResizeKeepsCells ==
  [][\A n, used \in Lengths : resize_array(n, used) => \A i \in 0 .. used - 1 :
       list'.arr \in DOMAIN heap' /\ heap'[list'.arr][i] = heap[list.arr][i]]_arrayVars

(* Copying to a lower place in the same block moves the cells; copying to  *)
(* a higher one that overlaps the source repeats the cells in between.     *)
CopyGoesUpwards ==
  [][\A dest, src, num \in Lengths : mcopy(dest, src, num) => \A i \in 0 .. num - 1 :
       heap'[list.arr][dest + i] =
         heap[list.arr][src + IF src < dest THEN i % (dest - src) ELSE i]]_arrayVars
=============================================================================
