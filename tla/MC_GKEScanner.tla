---------------------------- MODULE MC_GKEScanner ----------------------------
EXTENDS GKEScanner, TLC

\* Cluster names as strings.Split sees them: a well-formed name, the same
\* with a trailing "/" (seven parts), and one with an empty location.
MCClusterNames ==
    { <<"projects", "/", "p", "/", "locations", "/", "l", "/", "clusters", "/", "c">>,
      <<"projects", "/", "p", "/", "locations", "/", "l", "/", "clusters", "/", "c", "/">>,
      <<"projects", "/", "p", "/", "locations", "/", "/", "clusters", "/", "c">> }

====
