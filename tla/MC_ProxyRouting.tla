-------------------------- MODULE MC_ProxyRouting --------------------------
EXTENDS ProxyRouting

SomeSegments ==
    {"", "api", "video", "status", "files", "uploadFile", "upload", "A", "B", "gone"}

SomePaths ==
    { <<"">>, <<"api", "A">>, <<"api", "A", "status">>, <<"api", "gone", "video">>,
      <<"video">>, <<"video", "B">>, <<"files", "B">>, <<"api", "A", "uploadFile", "upload">> }

Scripts ==
    { <<"p", "q", "r", "u", "v", "w", "p", "q", "r">>,
      <<"u", "v", "w", "p", "u", "v", "w", "q", "p", "q", "r">> }
=============================================================================
