-------------------------------- MODULE Image --------------------------------
(***************************************************************************)
(* class Image (src/OmokClient/Image.cpp) as the client uses it, and the   *)
(* Windows objects it takes.  Pixels, sizes and colours are left out: an   *)
(* image is what its pointer leads to, and the objects are counted.        *)
(***************************************************************************)
EXTENDS Naturals, FiniteSets

(* "null": no object.  "empty": an object whose m_imageInfo is NULL, as      *)
(* Init leaves it when the file cannot be loaded.  "alive": it can be drawn. *)
ImageStates == {"null", "empty", "alive"}

(* What the process holds: memory DCs, bitmaps, DCs of the window, fonts,    *)
(* and whether a font of its own is selected into the back buffer.          *)
GdiCounts ==
  [dcs : Nat, bitmaps : Nat, windowDCs : Nat, fonts : Nat, selected : BOOLEAN]

NoGdi == [dcs |-> 0, bitmaps |-> 0, windowDCs |-> 0, fonts |-> 0, selected |-> FALSE]

-----------------------------------------------------------------------------
(* Init and Release, for the images named in `names` *)

(* Init(width, height), for an empty bitmap: a DC and a bitmap for the image, *)
(* a DC and a bitmap to blend with.                                          *)
InitEmpty(gdi) == [gdi EXCEPT !.dcs = @ + 2, !.bitmaps = @ + 2]

(* Init from a file takes the same.  Without the file, Release() gives the   *)
(* DC back, but the DC of the window that GetDC lent is not returned.        *)
InitObjects(gdi, names, missing) ==
  LET loaded == Cardinality(names \ missing)
  IN  [gdi EXCEPT !.dcs = @ + 2 * loaded,
                  !.bitmaps = @ + 2 * loaded,
                  !.windowDCs = @ + Cardinality(names \cap missing)]

InitImage(name, missing) == IF name \in missing THEN "empty" ELSE "alive"

(* delete, by way of ~Image and Release: of a live image the DC goes; hOBit, *)
(* which is deleted, is not the bitmap that was loaded, and the DC and bitmap *)
(* of blendImage stay.                                                       *)
ReleaseObjects(gdi, image, names) ==
  [gdi EXCEPT !.dcs = @ - Cardinality({n \in names : image[n] = "alive"})]

(* Render, GetMemDC, GetWidth, GetHeight follow m_imageInfo.                 *)
CanRender(image, names) == \A n \in names : image[n] = "alive"

-----------------------------------------------------------------------------
(* Text in a font of its own, as both Render()s write it *)

CreateAndSelect(gdi) == [gdi EXCEPT !.fonts = @ + 1, !.selected = TRUE]
SelectOld(gdi) == [gdi EXCEPT !.selected = FALSE]

(* DeleteObject fails while the font is selected.                            *)
DeleteFont(gdi) == IF gdi.selected THEN gdi ELSE [gdi EXCEPT !.fonts = @ - 1]

(* Faulty variant of TextInFont: the font is deleted before the old one is   *)
(* selected again.                                                           *)
TextInFontSwapped(gdi) == SelectOld(DeleteFont(CreateAndSelect(gdi)))

TextInFont(gdi) == DeleteFont(SelectOld(CreateAndSelect(gdi)))

=============================================================================
