----------------------------- MODULE MCDAFFPlots -----------------------------
EXTENDS QDAFFVTKWidget

MCDegree == 1000
Deg(x) == x * MCDegree
Header(alphaPoints, alphaStart, alphaEnd, betaPoints, betaStart, betaEnd) ==
  [alphaPoints |-> alphaPoints, alphaStart |-> Deg(alphaStart), alphaEnd |-> Deg(alphaEnd),
   betaPoints |-> betaPoints, betaStart |-> Deg(betaStart), betaEnd |-> Deg(betaEnd)]
Sphere == Header(3, 0, 360, 3, 0, 180)
Patch == Header(3, 0, 180, 2, 90, 180)
Ring == Header(3, 0, 360, 1, 90, 90)
Rings == Header(3, 0, 360, 2, 45, 135)

Loudness == <<0, 1, 10, 1, 10, 1, 100>>
Spectra(n, channels, frequencies) ==
  [r \in 0 .. n - 1, c \in 0 .. channels - 1, k \in 0 .. frequencies - 1 |->
     Loudness[((r + 3 * c + 2 * k) % 7) + 1]]
Responses(n, channels, length) ==
  [r \in 0 .. n - 1, c \in 0 .. channels - 1, k \in 0 .. length - 1 |->
     CASE (r + c + k) % 3 = 0 -> 10 [] (r + c + k) % 3 = 1 -> -10 [] OTHER -> 0]

File(type, h, n, channels, frequencies) ==
  LET value == IF type = "IR" THEN Responses(n, channels, frequencies)
                              ELSE Spectra(n, channels, frequencies)
  IN  [type |-> type, header |-> h, records |-> n, channels |-> channels,
       frequencies |-> frequencies, samplerate |-> 44100, value |-> value,
       max |-> Max({value[d] : d \in DOMAIN value})]
MCFiles == <<File("MS", Sphere, 5, 2, 1), File("MPS", Patch, 4, 1, 1),
             File("DFT", Ring, 3, 1, 3), File("DFT", Ring, 3, 1, 2),
             File("PS", Ring, 3, 1, 1), File("IR", Rings, 6, 1, 2),
             File("IR", Patch, 4, 1, 2)>>
MCContent == [f \in 1 .. 7 |-> MCFiles[f]]

\* The grid of the reader answers for every direction that a plot can ask for.
MCAlphas == {Deg(15 * i) : i \in 0 .. 24}
MCBetas == {Deg(15 * i) : i \in 0 .. 12}
Directions == MCAlphas \X MCBetas
FileGrid == INSTANCE DAFFGrid WITH
  Degree <- MCDegree, Headers <- {}, Alphas <- {}, Betas <- {},
  header <- 0, asked <- 0, record <- 0, outOfBounds <- 0, quad <- 0
ASSUME \A f \in DOMAIN MCContent :
         MCContent[f].records = FileGrid!NumRecords(MCContent[f].header)
MCNearest ==
  [f \in DOMAIN MCContent |->
     [d \in Directions |->
        FileGrid!NearestNeighbour(MCContent[f].header, [alpha |-> d[1], beta |-> d[2]])]]

MCBalloonRanges == {<<10, 1000>>}
MCCarpetRanges == {<<1, 10>>}
MCAngles == {0, Deg(90)}
MCProbes == {<<0, Deg(90)>>}

\* What the theorem about the meshes assumes is true of these contents.
ASSUME GridsAreDrawable
=============================================================================
