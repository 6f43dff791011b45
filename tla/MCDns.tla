-------------------------------- MODULE MCDns --------------------------------
EXTENDS DnsResolving
=============================================================================
