-------------------------------- MODULE Photo --------------------------------
(***************************************************************************)
(* read_photo (mp2/photo.c 440-654): the octree colour quantisation of a   *)
(* room photo.  Each 5:6:5 pixel is widened to 6 bits per channel and      *)
(* counted in one of 4096 level-4 octree nodes (the top 4 bits of each     *)
(* channel); qsort orders the nodes by count; the first 128 get palette    *)
(* entries 0..127 (VGA colours 64..191), and every other pixel is averaged *)
(* into one of 64 level-2 nodes (the top 2 bits of each channel), palette  *)
(* entries 128..191 (VGA colours 192..255).  prep_room loads the palette   *)
(* into VGA colours 64..255, so pixel k is shown as palette[img[k] - 64].  *)
(*                                                                         *)
(* LEVEL4_CHOSEN stands for the 128 of the code, in all three of its       *)
(* roles: how many level-4 nodes are chosen, where the level-2 entries     *)
(* start in the palette, and (plus 64) the first level-2 VGA colour.       *)
(* The level-4 table is kept only on the nodes some pixel hits: the        *)
(* others have count 0, sort after them and are never written.             *)
(***************************************************************************)
EXTENDS Integers, Sequences, FiniteSets, FiniteSetsExt, Functions, SequencesExt

CONSTANTS
    WIDTH, HEIGHT,   \* p->hdr.width, p->hdr.height (within MAX_PHOTO_*)
    PixelValues,     \* 16-bit 5:6:5 pixels the file may hold
    LEVEL4_CHOSEN,   \* 128
    SCROLL_X_DIM,    \* pixels in a horizontal line the scroller draws
    SCROLL_Y_DIM,    \* pixels in a vertical line
    OBJ_CLR_TRANSP,  \* the transparent object pixel
    Objects          \* the room's objects in list order: position and file

ASSUME /\ WIDTH \in Nat \ {0} /\ HEIGHT \in Nat \ {0}
       /\ PixelValues \subseteq 0 .. 65535
       /\ LEVEL4_CHOSEN \in Nat \ {0}
       /\ SCROLL_X_DIM \in Nat \ {0} /\ SCROLL_Y_DIM \in Nat \ {0}
       /\ \A i \in DOMAIN Objects :
            Len(Objects[i].file) = Objects[i].width * Objects[i].height

Cells == 0 .. WIDTH * HEIGHT - 1     \* indices of p->img, pixels, prev_idx
Level2Nodes == 0 .. 63
PaletteIdx == 0 .. LEVEL4_CHOSEN + 63
\* A byte nobody initialised: the malloc'd palette entries never written,
\* and level_2[j].red, which the init loop writes at the stale index i.
GARBAGE == -1

VARIABLES
    file,      \* the pixels in the file, in file order (bottom row first)
    status,    \* "reading", "ok" (p returned) or "NULL"
    img,       \* p->img
    palette    \* p->palette

vars == <<file, status, img, palette>>

\* r4, g4, b4 and r2, g2, b2: the pixel widened to 6 bits per channel
\* (photo.c 578-580, 622-624).
R4(px) == (px \div 2048) * 2
G4(px) == (px \div 32) % 64
B4(px) == (px % 32) * 2

\* idx4 (photo.c 581) and idx2 (photo.c 627).
Idx4(px) == (R4(px) \div 4) * 256 + (G4(px) \div 4) * 16 + B4(px) \div 4
Idx2(px) == (R4(px) \div 16) * 16 + (G4(px) \div 16) * 4 + B4(px) \div 16

\* pixels[width * y + x] after the read loop, which takes y from the
\* bottom row up and x left to right (photo.c 546-590).
Pixels(f) == [k \in Cells |->
                 f[(HEIGHT - 1 - k \div WIDTH) * WIDTH + (k % WIDTH) + 1]]

\* count and sums of the pixels in a set of cells (a color_t's fields).
Node(px, ks) ==
    [count |-> Cardinality(ks),
     sum_r |-> MapThenSumSet(LAMBDA k : R4(px[k]), ks),
     sum_g |-> MapThenSumSet(LAMBDA k : G4(px[k]), ks),
     sum_b |-> MapThenSumSet(LAMBDA k : B4(px[k]), ks)]

\* level_4[] after its init loop and the first pass (photo.c 515-524, 582-585).
Level4(px) == [n \in {Idx4(px[k]) : k \in Cells} |->
                  Node(px, {k \in Cells : Idx4(px[k]) = n})]

\* Mutant: the comparison reversed, fewest pixels first.
compareAscending(a, b) == a.count - b.count

\* compare (photo.c 97-100): most pixels first.
compare(a, b) == b.count - a.count

\* The orders qsort(level_4, 4096, ..., compare) may leave the hit nodes
\* in (photo.c 593).  qsort is not stable, so nodes of equal count come in
\* any order.
QsortOrders(T) ==
    {s \in Bijection(1 .. Cardinality(DOMAIN T), DOMAIN T) :
        \A i \in 1 .. Len(s) - 1 : compare(T[s[i]], T[s[i + 1]]) <= 0}

\* The average colour of a node with pixels (photo.c 600-603, 640-644).
Average(nd) == <<nd.sum_r \div nd.count, nd.sum_g \div nd.count,
                 nd.sum_b \div nd.count>>

\* Mutant: the first palette colour taken as VGA colour 63.
VgaLevel4OffByOne(rank) == rank + 63

\* p->img of a pixel whose node is chosen (photo.c 607-613).
VgaLevel4(rank) == rank + 64

\* Mutant: the second pass counts every pixel, chosen or not.
Level2MembersAll(px, in4, j) == {k \in Cells : Idx2(px[k]) = j}

\* The pixels the second pass adds to level_2[j]: those with in4[k] # 1
\* (photo.c 615-637).
Level2Members(px, in4, j) == {k \in Cells : ~in4[k] /\ Idx2(px[k]) = j}

\* level_2[j]'s colour when no pixel reached it: the init loop's values,
\* its red never written (photo.c 526-535, 646-648).
Level2Unused(j) == <<GARBAGE, (j % 2048) \div 512, (j % 32) \div 8>>

\* read_photo when every fread succeeds, with the order s qsort produced:
\* the first pass, the sort, sorted_list and the level-4 palette, img of
\* the chosen pixels, the second pass, and the level-2 palette
\* (photo.c 593-653).
ReadPhoto(s) ==
    LET px == Pixels(file)
        T == Level4(px)
        sorted_list == [n \in DOMAIN T |-> CHOOSE i \in 0 .. Len(s) - 1 :
                                              s[i + 1] = n]
        in4 == [k \in Cells |-> sorted_list[Idx4(px[k])] < LEVEL4_CHOSEN]
        level_2 == [j \in Level2Nodes |-> Node(px, Level2Members(px, in4, j))]
    IN
    /\ status = "reading"
    /\ status' = "ok"
    /\ img' = [k \in Cells |->
                 IF in4[k] THEN VgaLevel4(sorted_list[Idx4(px[k])])
                 ELSE Idx2(px[k]) + LEVEL4_CHOSEN + 64]
    /\ palette' = [i \in PaletteIdx |->
                     CASE i < LEVEL4_CHOSEN /\ i < Len(s) -> Average(T[s[i + 1]])
                       [] i >= LEVEL4_CHOSEN ->
                            LET nd == level_2[i - LEVEL4_CHOSEN]
                            IN  IF nd.count # 0 THEN Average(nd)
                                ELSE Level2Unused(i - LEVEL4_CHOSEN)
                       [] OTHER -> <<GARBAGE, GARBAGE, GARBAGE>>]
    /\ UNCHANGED file

\* fopen, malloc or fread fails, or the header is too large: read_photo
\* frees what it took and returns NULL (photo.c 455-471, 551-560).
ReadFails ==
    /\ status = "reading"
    /\ status' = "NULL"
    /\ UNCHANGED <<file, img, palette>>

-----------------------------------------------------------------------------
(* Drawing the room (photo.c 129-266, 360-422): the scroller asks for one  *)
(* line of SCROLL_X_DIM or SCROLL_Y_DIM pixels at map position (x, y), and *)
(* gets the photo's pixels (0 past its edge) with the objects' opaque      *)
(* pixels drawn over them, objects later in the list on top.               *)

\* Mutant: the rows stored in file order, bottom row first.
ReadObjImageFileOrder(o) ==
    [width |-> o.width, height |-> o.height,
     img |-> [k \in 0 .. o.width * o.height - 1 |-> o.file[k + 1]]]

\* read_obj_image (photo.c 360-422) when every fread succeeds: rows come
\* bottom first in the file and are stored top first.
ReadObjImage(o) ==
    [width |-> o.width, height |-> o.height,
     img |-> [k \in 0 .. o.width * o.height - 1 |->
                o.file[(o.height - 1 - k \div o.width) * o.width
                       + (k % o.width) + 1]]]

Images == [i \in DOMAIN Objects |-> ReadObjImage(Objects[i])]

\* The first loop of fill_horiz_buffer (photo.c 144-148).
RoomLineH(x, y) ==
    [idx \in 0 .. SCROLL_X_DIM - 1 |->
        IF 0 <= x + idx /\ WIDTH > x + idx THEN img[WIDTH * y + x + idx] ELSE 0]

\* One object of the second loop (photo.c 150-187): skipped unless it meets
\* the line; else its pixels from idx0 on, image column imgx0 on, are
\* copied while both are in range, transparent ones left out.
DrawObjH(buf, x, y, i) ==
    LET o == Objects[i]
        im == Images[i]
        yoff == (y - o.y) * im.width
        idx0 == IF x <= o.x THEN o.x - x ELSE 0
        imgx0 == IF x <= o.x THEN 0 ELSE x - o.x
    IN  IF y < o.y \/ y >= o.y + im.height
           \/ x + SCROLL_X_DIM <= o.x \/ x >= o.x + im.width
        THEN buf
        ELSE [idx \in DOMAIN buf |->
                LET imgx == imgx0 + idx - idx0 IN
                IF idx >= idx0 /\ im.width > imgx
                   /\ OBJ_CLR_TRANSP # im.img[yoff + imgx]
                THEN im.img[yoff + imgx] ELSE buf[idx]]

fill_horiz_buffer(x, y) ==
    FoldLeftDomain(LAMBDA buf, i : DrawObjH(buf, x, y, i), RoomLineH(x, y),
                   Objects)

\* fill_vert_buffer (photo.c 207-266), the same along a column.
RoomLineV(x, y) ==
    [idx \in 0 .. SCROLL_Y_DIM - 1 |->
        IF 0 <= y + idx /\ HEIGHT > y + idx THEN img[WIDTH * (y + idx) + x]
        ELSE 0]

DrawObjV(buf, x, y, i) ==
    LET o == Objects[i]
        im == Images[i]
        xoff == x - o.x
        idx0 == IF y <= o.y THEN o.y - y ELSE 0
        imgy0 == IF y <= o.y THEN 0 ELSE y - o.y
    IN  IF x < o.x \/ x >= o.x + im.width
           \/ y + SCROLL_Y_DIM <= o.y \/ y >= o.y + im.height
        THEN buf
        ELSE [idx \in DOMAIN buf |->
                LET imgy == imgy0 + idx - idx0 IN
                IF idx >= idx0 /\ im.height > imgy
                   /\ OBJ_CLR_TRANSP # im.img[xoff + im.width * imgy]
                THEN im.img[xoff + im.width * imgy] ELSE buf[idx]]

fill_vert_buffer(x, y) ==
    FoldLeftDomain(LAMBDA buf, i : DrawObjV(buf, x, y, i), RoomLineV(x, y),
                   Objects)

Init ==
    /\ file \in [1 .. WIDTH * HEIGHT -> PixelValues]
    /\ status = "reading"
    /\ img = [k \in Cells |-> 0]
    /\ palette = [i \in PaletteIdx |-> <<GARBAGE, GARBAGE, GARBAGE>>]

Next == (\E s \in QsortOrders(Level4(Pixels(file))) : ReadPhoto(s)) \/ ReadFails

Spec == Init /\ [][Next]_vars
-----------------------------------------------------------------------------
(* Properties                                                              *)

TypeOK ==
    /\ file \in [1 .. WIDTH * HEIGHT -> PixelValues]
    /\ status \in {"reading", "ok", "NULL"}
    /\ img \in [Cells -> {0} \cup 64 .. LEVEL4_CHOSEN + 127]
    /\ palette \in [PaletteIdx -> ({GARBAGE} \cup 0 .. 63)
                                   \X ({GARBAGE} \cup 0 .. 63)
                                   \X ({GARBAGE} \cup 0 .. 63)]

\* The reference octree, from the photo format rather than the code: a
\* pixel's 6-bit colour, its level-4 and level-2 octree nodes.
RGB6(px) == <<(px \div 2^11) * 2, (px \div 2^5) % 2^6, (px % 2^5) * 2>>
Octant(px, bits) == [c \in 1 .. 3 |-> RGB6(px)[c] \div 2^(6 - bits)]
Shown(k) == Pixels(file)[k]
HasLevel4Colour(k) == img[k] < LEVEL4_CHOSEN + 64
SameNode4(k) == {j \in Cells : Octant(Shown(j), 4) = Octant(Shown(k), 4)}
MeanColour(S) ==
    [c \in 1 .. 3 |-> MapThenSumSet(LAMBDA j : RGB6(Shown(j))[c], S)
                        \div Cardinality(S)]

\* After read_photo returns p, every pixel is shown (palette[img[k] - 64],
\* as prep_room loads it at VGA colour 64) in the average colour of its
\* group: all pixels of its level-4 node if that node got a colour,
\* otherwise the pixels of its level-2 node that got none.  This ties the
\* sort, the inverse sorted_list, the in4 marks of the second pass and the
\* three palette offsets together.
ShownIsAverage ==
    status = "ok" =>
        \A k \in Cells :
            palette[img[k] - 64] =
                MeanColour(IF HasLevel4Colour(k) THEN SameNode4(k)
                           ELSE {j \in Cells : ~HasLevel4Colour(j)
                                     /\ Octant(Shown(j), 2) = Octant(Shown(k), 2)})

\* The level-4 colours go to the most frequent nodes, whatever order qsort
\* leaves equal counts in: min(128, nodes) nodes get one, a node's pixels
\* all get it or none do, two pixels share a level-4 colour exactly when
\* they share a node, and no chosen node has fewer pixels than one left out.
MostFrequentChosen ==
    status = "ok" =>
        LET chosen == {k \in Cells : HasLevel4Colour(k)}
            nodes == {Octant(Shown(k), 4) : k \in Cells}
        IN  /\ Cardinality({Octant(Shown(k), 4) : k \in chosen})
                 = IF LEVEL4_CHOSEN < Cardinality(nodes) THEN LEVEL4_CHOSEN
                   ELSE Cardinality(nodes)
            /\ \A k, j \in Cells :
                  Octant(Shown(k), 4) = Octant(Shown(j), 4)
                      => (k \in chosen <=> j \in chosen)
            /\ \A k, j \in chosen :
                  img[k] = img[j] <=> Octant(Shown(k), 4) = Octant(Shown(j), 4)
            /\ \A k \in chosen, j \in Cells \ chosen :
                  Cardinality(SameNode4(k)) >= Cardinality(SameNode4(j))

\* The scene from the file formats rather than the code: at map pixel
\* (px, py), the object file byte of the last object in the list whose
\* picture has an opaque pixel there (object files, like photos, hold the
\* bottom row first), else the photo's pixel, else 0 past its edge.
ObjByte(i, c, r) ==
    Objects[i].file[(Objects[i].height - 1 - r) * Objects[i].width + c + 1]
Opaque(i, px, py) ==
    /\ Objects[i].x <= px /\ px < Objects[i].x + Objects[i].width
    /\ Objects[i].y <= py /\ py < Objects[i].y + Objects[i].height
    /\ ObjByte(i, px - Objects[i].x, py - Objects[i].y) # OBJ_CLR_TRANSP
SceneAt(px, py) ==
    LET on == {i \in DOMAIN Objects : Opaque(i, px, py)} IN
    IF on # {} THEN ObjByte(Max(on), px - Objects[Max(on)].x,
                                     py - Objects[Max(on)].y)
    ELSE IF 0 <= px /\ px < WIDTH /\ 0 <= py /\ py < HEIGHT
         THEN img[WIDTH * py + px] ELSE 0

\* Once read_photo has returned p, every line fill_horiz_buffer and
\* fill_vert_buffer produce shows the scene: for each row of the photo
\* and each start column from one left of it to its last, and for each
\* column and each start row likewise.  This ties read_obj_image's row
\* flip, the clipping of both loops against the line and the image, the
\* transparency test and the drawing order together.
LinesShowScene ==
    status = "ok" =>
        /\ \A y \in 0 .. HEIGHT - 1, x \in -1 .. WIDTH - 1 :
              \A idx \in 0 .. SCROLL_X_DIM - 1 :
                 fill_horiz_buffer(x, y)[idx] = SceneAt(x + idx, y)
        /\ \A x \in 0 .. WIDTH - 1, y \in -1 .. HEIGHT - 1 :
              \A idx \in 0 .. SCROLL_Y_DIM - 1 :
                 fill_vert_buffer(x, y)[idx] = SceneAt(x, y + idx)
====
