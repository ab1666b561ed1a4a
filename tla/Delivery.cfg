SPECIFICATION FairDeliverySpec
CONSTANTS
    email = email
    macos = macos
    daemon = daemon
    cli = cli
    Nobody = Nobody
    Items = {i1}
    Adapters = {email, macos}
    Daemons = {daemon}
    Clients = {cli}
    Configured <- MCConfigured
    Mute <- MCMute
    MaxCrashes = 1
INVARIANTS DeliveryInv
PROPERTIES RequestsFinish
