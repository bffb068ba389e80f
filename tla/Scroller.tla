------------------------------ MODULE Scroller ------------------------------
(***************************************************************************)
(* The cursor of the message list, src/src/client/scroller.cpp: where each *)
(* key moves it.  `size` is the height of the content when it was last     *)
(* drawn, `page` the height of the box on the screen less one, which is    *)
(* the distance a page key moves.                                          *)
(***************************************************************************)
EXTENDS Integers

Keys == {"up", "down", "pageDown", "pageUp", "home", "end", "other"}

Moved(selected, size, page, key) ==
  CASE key = "up" -> selected - 1
    [] key = "down" -> selected + 1
    [] key = "pageDown" -> selected + page
    [] key = "pageUp" -> selected - page
    [] key = "home" -> 0
    [] key = "end" -> size
    [] key = "other" -> selected

\* std::max(0, std::min(size_ - 1, selected_))
Clamp(selected, size) ==
  LET low == IF size - 1 <= selected THEN size - 1 ELSE selected IN
  IF low < 0 THEN 0 ELSE low

\* OnEvent: any event, also one that is no key of the list, clamps the cursor
\* to the size last drawn; it is consumed if the cursor moved.
OnEvent(selected, size, page, key) == Clamp(Moved(selected, size, page, key), size)
Consumed(selected, size, page, key) == OnEvent(selected, size, page, key) # selected
=============================================================================
