---------------------------- MODULE MCMcrResponse ----------------------------
EXTENDS McrResponse

\* An index page, an image of each class index, a page longer than the buffer for
\* it, one without an extension, an empty one, a directory, and nothing.
MCPaths == {
  [url |-> "/index.html", ext |-> "html",  kind |-> "page",      len |-> 2],
  [url |-> "/a.jpg",      ext |-> "jpg",   kind |-> "page",      len |-> 1],
  [url |-> "/b.png",      ext |-> "png",   kind |-> "page",      len |-> 3],
  [url |-> "/README",     ext |-> "none",  kind |-> "page",      len |-> 1],
  [url |-> "/c.txt",      ext |-> "other", kind |-> "page",      len |-> 0],
  [url |-> "/d.d/e",      ext |-> "other", kind |-> "page",      len |-> 1],
  [url |-> "/d.d",        ext |-> "other", kind |-> "directory", len |-> 0],
  [url |-> "/f.html",     ext |-> "html",  kind |-> "missing",   len |-> 0]}
=============================================================================
